---- MODULE Spec2Model ----
(***************************************************************************)
(* Model of the xml2pg streaming ingestion pipeline: the batch builder     *)
(* (src/src/pipeline/batching.py), the producer, the consumers and the     *)
(* coordinator (src/src/pipeline/*.py), the bulk loader's transaction      *)
(* (src/src/db/copy.py) and the top-level caller (src/src/main.py).        *)
(***************************************************************************)
EXTENDS Integers, Sequences, FiniteSets, Bags, TLC

(***************************************************************************)
(* Bounds of the model.                                                    *)
(***************************************************************************)
MaxBatchRows == 3
MaxBatchBytes == 14
MaxInputRows == 4
MaxWorkers == 2
MaxQueueSize == 2
MaxCopyRetries == 1
MaxGroups == 2
MaxEventsPerGroup == 1
MaxFairGroups == 1

VARIABLES
    bt,         \* the batch-builder harness: iter_batches over a bounded input
    rd,         \* the reader harness: iter_group_events over a bounded document
    cx,         \* the row-encoding harness: one row, encoded and read back
    fz,         \* the finalize harness: finalize over bounded staging tables
    mx,         \* the metrics harness: concurrent inc and snapshot calls
    ck,         \* the chunk harness: _bytes_chunks feeding the driver's write
    fs,         \* the statement harness: finalize, one SQL statement a step
    al,         \* the aliasing harness: the lists behind returned batches
    tr,         \* the tree harness: the elements kept under the root
    cfg,        \* PipelineConfig / ConsumerConfig of the run
    doc,        \* what the XML reader yields: the sequence of bundles
    queue,      \* the bounded multiprocessing queue (Batch or None)
    stop_event, \* the shared stop flag
    metrics,    \* SharedMetrics
    prod,       \* the producer process
    cons,       \* the consumer processes
    coord,      \* run_pipeline and its caller main
    staging,    \* committed rows of the two staging tables
    exhausted   \* history: consumers whose _process_batch returned False

\* the variables of the harnesses that exercise one component alone
harnessVars == <<bt, rd, cx, fz, mx, ck, fs, al, tr>>

\* the variables of the running pipeline
pipeVars ==
    <<cfg, doc, queue, stop_event, metrics, prod, cons, coord, staging,
      exhausted>>

vars == <<harnessVars, pipeVars>>

\* what each harness leaves alone
exceptBt == <<pipeVars, rd, cx, fz, mx, ck, fs, al, tr>>
exceptRd == <<pipeVars, bt, cx, fz, mx, ck, fs, al, tr>>
exceptCx == <<pipeVars, bt, rd, fz, mx, ck, fs, al, tr>>
exceptFz == <<pipeVars, bt, rd, cx, mx, ck, fs, al, tr>>
exceptMx == <<pipeVars, bt, rd, cx, fz, ck, fs, al, tr>>
exceptFs == <<pipeVars, bt, rd, cx, fz, mx, ck, al, tr>>
exceptCk == <<pipeVars, bt, rd, cx, fz, mx, fs, al, tr>>
exceptTr == <<pipeVars, bt, rd, cx, fz, mx, ck, fs, al>>
exceptAl == <<pipeVars, bt, rd, cx, fz, mx, ck, fs, tr>>

(***************************************************************************)
(* Rows.  A field is absent (None), an integer or a text; a row is a       *)
(* sequence of fields.                                                     *)
(***************************************************************************)
NoneF == [t |-> "none", i |-> 0, s |-> ""]
IntF(n) == [t |-> "int", i |-> n, s |-> ""]
TextF(x) == [t |-> "text", i |-> 0, s |-> x]

RECURSIVE DecDigits(_)
DecDigits(n) == IF n < 10 THEN 1 ELSE 1 + DecDigits(n \div 10)

\* len(str(v)) for a present field
StrLen(f) ==
    IF f.t = "int"
    THEN IF f.i < 0 THEN 1 + DecDigits(0 - f.i) ELSE DecDigits(f.i)
    ELSE Len(f.s)

RECURSIVE SumFieldBytes(_, _)
SumFieldBytes(row, k) ==
    IF k > Len(row) THEN 0
    ELSE (IF row[k].t = "none" THEN 2 ELSE StrLen(row[k]))
         + SumFieldBytes(row, k + 1)

\* _estimate_copy_text_row_bytes
EstimateRowBytes(row) ==
    IF Len(row) = 0 THEN 1
    ELSE 1 + (Len(row) - 1) + SumFieldBytes(row, 1)

(***************************************************************************)
(* Batch and BatchBuilder.                                                 *)
(***************************************************************************)
Batch(kind, rows) == [some |-> TRUE, kind |-> kind, rows |-> rows]
NoBatch == [some |-> FALSE, kind |-> "", rows |-> <<>>]

\* BatchBuilder.__init__
NewBuilder(kind, max_rows, max_bytes) ==
    [kind |-> kind, max_rows |-> max_rows, max_bytes |-> max_bytes,
     rows |-> <<>>, bytes |-> 0]

\* a faulty flush that empties the buffer and returns nothing
BuilderFlushLosesRows(b) ==
    [b |-> [b EXCEPT !.rows = <<>>, !.bytes = 0], out |-> NoBatch]

\* BatchBuilder.flush: (builder after the call, returned batch or None)
BuilderFlush(b) ==
    IF b.rows = <<>>
    THEN [b |-> b, out |-> NoBatch]
    ELSE [b |-> [b EXCEPT !.rows = <<>>, !.bytes = 0],
          out |-> Batch(b.kind, b.rows)]

\* a faulty overflow test that looks at the row limit alone
WouldOverflowRowsOnly(b, row_bytes) ==
    /\ b.rows # <<>>
    /\ Len(b.rows) + 1 > b.max_rows

\* the overflow test of BatchBuilder.add (lines 102-105)
WouldOverflow(b, row_bytes) ==
    /\ b.rows # <<>>
    /\ \/ Len(b.rows) + 1 > b.max_rows
       \/ b.bytes + row_bytes > b.max_bytes

\* the limit test after appending (line 114)
LimitReached(b) ==
    \/ Len(b.rows) >= b.max_rows
    \/ b.bytes >= b.max_bytes

\* a faulty add that starts the next batch empty after an overflow
BuilderAddDropsRow(b, row) ==
    LET row_bytes == EstimateRowBytes(row) IN
    IF WouldOverflow(b, row_bytes)
    THEN [b |-> [b EXCEPT !.rows = <<>>, !.bytes = 0],
          out |-> Batch(b.kind, b.rows)]
    ELSE LET b2 == [b EXCEPT !.rows = Append(b.rows, row),
                             !.bytes = b.bytes + row_bytes]
         IN IF LimitReached(b2) THEN BuilderFlush(b2)
            ELSE [b |-> b2, out |-> NoBatch]

\* BatchBuilder.add: (builder after the call, returned batch or None)
BuilderAdd(b, row) ==
    LET row_bytes == EstimateRowBytes(row) IN
    IF WouldOverflow(b, row_bytes)
    THEN [b |-> [b EXCEPT !.rows = <<row>>, !.bytes = row_bytes],
          out |-> Batch(b.kind, b.rows)]
    ELSE LET b2 == [b EXCEPT !.rows = Append(b.rows, row),
                             !.bytes = b.bytes + row_bytes]
         IN IF LimitReached(b2) THEN BuilderFlush(b2)
            ELSE [b |-> b2, out |-> NoBatch]

(***************************************************************************)
(* iter_batches over a bounded input, with flush also callable between     *)
(* adds (any sequence of add and flush calls on one builder).              *)
(***************************************************************************)
RowPool ==
    { <<IntF(1), NoneF>>,
      <<IntF(2), IntF(1), TextF("x")>>,
      <<IntF(10), TextF("abcdefghijklmnop")>> }

RECURSIVE SeqsUpTo(_, _)
SeqsUpTo(S, n) ==
    IF n = 0 THEN { <<>> }
    ELSE LET shorter == SeqsUpTo(S, n - 1)
         IN shorter \cup { Append(q, x) : q \in shorter, x \in S }

Emit(out, r) == IF r.out.some THEN Append(out, r.out) ELSE out

BtInit ==
    \E mr \in 1..MaxBatchRows, mb \in 1..MaxBatchBytes,
       input \in SeqsUpTo(RowPool, MaxInputRows) :
        bt = [pc |-> "loop", input |-> input, pos |-> 0,
              b |-> NewBuilder("event", mr, mb), out |-> <<>>]

\* iter_batches: maybe = b.add(r); yield maybe
BtAdd ==
    /\ bt.pc = "loop"
    /\ bt.pos < Len(bt.input)
    /\ LET r == BuilderAdd(bt.b, bt.input[bt.pos + 1])
       IN bt' = [bt EXCEPT !.pos = bt.pos + 1, !.b = r.b,
                           !.out = Emit(bt.out, r)]
    /\ UNCHANGED exceptBt

\* a flush call between adds
BtFlush ==
    /\ bt.pc = "loop"
    /\ LET r == BuilderFlush(bt.b)
       IN bt' = [bt EXCEPT !.b = r.b, !.out = Emit(bt.out, r)]
    /\ UNCHANGED exceptBt

\* iter_batches: tail = b.flush(); yield tail
BtTail ==
    /\ bt.pc = "loop"
    /\ bt.pos = Len(bt.input)
    /\ LET r == BuilderFlush(bt.b)
       IN bt' = [bt EXCEPT !.pc = "done", !.b = r.b,
                           !.out = Emit(bt.out, r)]
    /\ UNCHANGED exceptBt

BtNext == BtAdd \/ BtFlush \/ BtTail

\* the batch-builder harness is idle while the pipeline runs
BtIdle == bt = [pc |-> "idle", input |-> <<>>, pos |-> 0,
                b |-> NewBuilder("event", 1, 1), out |-> <<>>]

(***************************************************************************)
(* SharedMetrics.                                                          *)
(***************************************************************************)
\* SharedMetrics.__init__
NewMetrics ==
    [groups_parsed |-> 0, events_parsed |-> 0,
     groups_enqueued |-> 0, events_enqueued |-> 0,
     groups_copied |-> 0, events_copied |-> 0,
     batches_enqueued |-> 0, batches_copied |-> 0,
     skipped_records |-> 0, copy_errors |-> 0]

\* a faulty inc that takes the delta off the counter
IncSubtracts(m, field, delta) ==
    IF delta = 0 THEN m ELSE [m EXCEPT ![field] = @ - delta]

\* SharedMetrics.inc
Inc(m, field, delta) ==
    IF delta = 0 THEN m ELSE [m EXCEPT ![field] = @ + delta]

\* SharedMetrics.snapshot (the counters; the timestamp is not modelled)
Snapshot(m) == m

(***************************************************************************)
(* The run's configuration and the document.                               *)
(***************************************************************************)
GroupRow(g) == <<IntF(g), NoneF>>
EventRow(g, j) == <<IntF(10 * g + j), IntF(g), TextF(<<"e">>)>>

\* GroupEventBundle of group g with n events
Bundle(g, n) ==
    [group |-> GroupRow(g), events |-> [j \in 1..n |-> EventRow(g, j)]]

\* the documents: up to MaxGroups bundles, each with up to
\* MaxEventsPerGroup events
Docs ==
    UNION { { [g \in 1..n |-> Bundle(g, ec[g])] :
                ec \in [1..n -> 0..MaxEventsPerGroup] } : n \in 0..MaxGroups }

Configs ==
    [workers : 1..MaxWorkers,
     queue_maxsize : 1..MaxQueueSize,
     batch_max_rows : 1..2,
     batch_max_bytes : {MaxBatchBytes},
     copy_retries : 0..MaxCopyRetries]

Consumers == 0..(cfg.workers - 1)

NoMsg == [some |-> FALSE, kind |-> "", rows |-> <<>>]
Sentinel == [some |-> TRUE, kind |-> "None", rows |-> <<>>]

\* producer_main before its loop (lines 42-53); observed records that a
\* stop_event.is_set() of the producer has returned True
NewProducer(c) ==
    [pc |-> "iter", idx |-> 0, ev |-> 0,
     group_batcher |-> NewBuilder("group", c.batch_max_rows, c.batch_max_bytes),
     event_batcher |-> NewBuilder("event", c.batch_max_rows, c.batch_max_bytes),
     batch |-> NoBatch, ret |-> "", skipped |-> 0, exitcode |-> 0,
     observed |-> FALSE, enqueued |-> <<>>]

\* a consumer process right after spawn (raised counts the attempts of this
\* consumer in which the loader raised)
NewConsumer ==
    [pc |-> "start", msg |-> NoMsg, attempt |-> 0, tries |-> 0,
     exitcode |-> 0, sentinels |-> 0, raised |-> 0]

\* run_pipeline up to the start of its loop (lines 50-88)
PipeInit ==
    /\ cfg \in Configs
    /\ doc \in Docs
    /\ queue = <<>>
    /\ stop_event = FALSE
    /\ metrics = NewMetrics
    /\ prod = NewProducer(cfg)
    /\ cons = [c \in Consumers |-> NewConsumer]
    /\ coord = [pc |-> "loop", sent |-> 0, final |-> NewMetrics,
                drained |-> FALSE, finalized |-> FALSE,
                joined |-> {}]
    /\ staging = [group |-> EmptyBag, event |-> EmptyBag]
    /\ exhausted = {}


(***************************************************************************)
(* The bounded queue.                                                      *)
(***************************************************************************)
\* an unbounded queue: put never waits
QueueFullNever(q) == FALSE

\* Queue(maxsize=cfg.queue_maxsize): put blocks while maxsize items are held
QueueFull(q) == Len(q) >= cfg.queue_maxsize

(***************************************************************************)
(* The producer process: producer_main and _put_batch.                     *)
(***************************************************************************)
ProducerAlive == prod.pc # "exited"

\* call _put_batch(batch) and continue at ret, or continue at ret at once
PutOrSkip(p, out, doPut, ret) ==
    IF doPut
    THEN [p EXCEPT !.batch = out, !.pc = "put_check", !.ret = ret]
    ELSE [p EXCEPT !.pc = ret]

\* for bundle in iter_group_events(...): if stop_event.is_set(): break
ProdIter ==
    /\ prod.pc = "iter"
    /\ \/ \* XmlFatal: the file is unreadable or malformed with recover=false
          /\ prod' = [prod EXCEPT !.pc = "finally", !.exitcode = 1]
       \/ /\ prod.idx = Len(doc)
          /\ prod' = [prod EXCEPT !.pc = "flush_g"]
       \/ /\ prod.idx < Len(doc)
          /\ prod' = [prod EXCEPT !.idx = prod.idx + 1,
                        !.pc = IF stop_event THEN "flush_g" ELSE "group",
                        !.observed = prod.observed \/ stop_event]
    /\ UNCHANGED <<harnessVars, cfg, doc, queue, stop_event, metrics, cons, coord,
                   staging, exhausted>>

\* metrics.inc(groups_parsed, 1); maybe = group_batcher.add((g.id, g.name))
ProdGroup ==
    /\ prod.pc = "group"
    /\ metrics' = Inc(metrics, "groups_parsed", 1)
    /\ LET r == BuilderAdd(prod.group_batcher, doc[prod.idx].group)
       IN prod' = PutOrSkip([prod EXCEPT !.group_batcher = r.b],
                            r.out, r.out.some, "events")
    /\ UNCHANGED <<harnessVars, cfg, doc, queue, stop_event, cons, coord, staging,
                   exhausted>>

\* if bundle.events: metrics.inc(events_parsed, len(bundle.events))
ProdEvents ==
    /\ prod.pc = "events"
    /\ LET evs == doc[prod.idx].events
       IN IF Len(evs) > 0
          THEN /\ metrics' = Inc(metrics, "events_parsed", Len(evs))
               /\ prod' = [prod EXCEPT !.ev = 0, !.pc = "event_add"]
          ELSE /\ prod' = [prod EXCEPT !.pc = "iter"]
               /\ UNCHANGED metrics
    /\ UNCHANGED <<harnessVars, cfg, doc, queue, stop_event, cons, coord, staging,
                   exhausted>>

\* for ev in bundle.events: maybe_ev = event_batcher.add(...); after the
\* last event the loop over the bundles goes on
ProdEventAdd ==
    /\ prod.pc = "event_add"
    /\ LET evs == doc[prod.idx].events
           r == BuilderAdd(prod.event_batcher, evs[prod.ev + 1])
           next == IF prod.ev + 1 < Len(evs) THEN "event_add" ELSE "iter"
       IN prod' = PutOrSkip([prod EXCEPT !.event_batcher = r.b,
                                         !.ev = prod.ev + 1],
                            r.out, r.out.some, next)
    /\ UNCHANGED <<harnessVars, cfg, doc, queue, stop_event, metrics, cons, coord,
                   staging, exhausted>>

\* _put_batch: if stop_event.is_set(): return
ProdPutCheck ==
    /\ prod.pc = "put_check"
    /\ prod' = IF stop_event
               THEN [prod EXCEPT !.pc = prod.ret, !.batch = NoBatch,
                                 !.observed = TRUE]
               ELSE [prod EXCEPT !.pc = "put"]
    /\ UNCHANGED <<harnessVars, cfg, doc, queue, stop_event, metrics, cons, coord,
                   staging, exhausted>>

\* _put_batch: out_queue.put(batch) (enqueued keeps the batches put so far)
ProdPut ==
    /\ prod.pc = "put"
    /\ ~QueueFull(queue)
    /\ queue' = Append(queue, prod.batch)
    /\ prod' = [prod EXCEPT !.pc = "inc_batches_enqueued",
                            !.enqueued = Append(@, prod.batch)]
    /\ UNCHANGED <<harnessVars, cfg, doc, stop_event, metrics, cons, coord, staging,
                   exhausted>>

\* _put_batch: metrics.inc(batches_enqueued, 1)
ProdIncBatchesEnqueued ==
    /\ prod.pc = "inc_batches_enqueued"
    /\ metrics' = Inc(metrics, "batches_enqueued", 1)
    /\ prod' = [prod EXCEPT !.pc = "inc_rows_enqueued"]
    /\ UNCHANGED <<harnessVars, cfg, doc, queue, stop_event, cons, coord, staging,
                   exhausted>>

\* _put_batch: metrics.inc(groups_enqueued | events_enqueued, len(batch.rows))
ProdIncRowsEnqueued ==
    /\ prod.pc = "inc_rows_enqueued"
    /\ metrics' = Inc(metrics,
                      IF prod.batch.kind = "group" THEN "groups_enqueued"
                      ELSE "events_enqueued",
                      Len(prod.batch.rows))
    /\ prod' = [prod EXCEPT !.pc = prod.ret, !.batch = NoBatch]
    /\ UNCHANGED <<harnessVars, cfg, doc, queue, stop_event, cons, coord, staging,
                   exhausted>>

\* tail_g = group_batcher.flush(); if tail_g is not None and not stop: put
ProdFlushGroups ==
    /\ prod.pc = "flush_g"
    /\ LET r == BuilderFlush(prod.group_batcher)
       IN prod' = PutOrSkip([prod EXCEPT !.group_batcher = r.b,
                                 !.observed = prod.observed
                                                 \/ (r.out.some /\ stop_event)],
                            r.out, r.out.some /\ ~stop_event, "flush_e")
    /\ UNCHANGED <<harnessVars, cfg, doc, queue, stop_event, metrics, cons, coord,
                   staging, exhausted>>

\* tail_e = event_batcher.flush(); if tail_e is not None and not stop: put
ProdFlushEvents ==
    /\ prod.pc = "flush_e"
    /\ LET r == BuilderFlush(prod.event_batcher)
       IN prod' = PutOrSkip([prod EXCEPT !.event_batcher = r.b,
                                 !.observed = prod.observed
                                                 \/ (r.out.some /\ stop_event)],
                            r.out, r.out.some /\ ~stop_event, "finally")
    /\ UNCHANGED <<harnessVars, cfg, doc, queue, stop_event, metrics, cons, coord,
                   staging, exhausted>>

\* finally: metrics.inc(skipped_records, stats.skipped_records); exit
ProdFinally ==
    /\ prod.pc = "finally"
    /\ metrics' = Inc(metrics, "skipped_records", prod.skipped)
    /\ prod' = [prod EXCEPT !.pc = "exited"]
    /\ UNCHANGED <<harnessVars, cfg, doc, queue, stop_event, cons, coord, staging,
                   exhausted>>

Producer ==
    \/ ProdIter \/ ProdGroup \/ ProdEvents \/ ProdEventAdd
    \/ ProdPutCheck \/ ProdPut \/ ProdIncBatchesEnqueued
    \/ ProdIncRowsEnqueued \/ ProdFlushGroups \/ ProdFlushEvents
    \/ ProdFinally

(***************************************************************************)
(* The row encoding of COPY ... FORMAT text: _escape_copy_text and         *)
(* _text_lines.  A text is a sequence of characters; str(v) of an integer  *)
(* is its decimal digits.                                                  *)
(***************************************************************************)
MaxTextLen == 2
MaxChunkBytes == 12
MaxFields == 2

Backslash == "\\"
Tab == "\t"
LineFeed == "\n"
CarriageReturn == "\r"
Backspace == "BS"

DigitChar(d) == <<"0", "1", "2", "3", "4", "5", "6", "7", "8", "9">>[d + 1]

\* str(v) for an integer v
RECURSIVE DecChars(_)
DecChars(n) ==
    IF n < 0 THEN <<"-">> \o DecChars(0 - n)
    ELSE IF n < 10 THEN <<DigitChar(n)>>
    ELSE DecChars(n \div 10) \o <<DigitChar(n % 10)>>

\* s = str(value)
Str(f) == IF f.t = "int" THEN DecChars(f.i) ELSE f.s

\* a faulty table that leaves the backslash as it is
TranslateKeepsBackslash(ch) ==
    CASE ch = Tab -> <<Backslash, "t">>
      [] ch = LineFeed -> <<Backslash, "n">>
      [] ch = CarriageReturn -> <<Backslash, "r">>
      [] ch = Backspace -> <<Backslash, "b">>
      [] OTHER -> <<ch>>

\* _TRANSLATE (form feed and vertical tab go the way of backspace)
Translate(ch) ==
    CASE ch = Backslash -> <<Backslash, Backslash>>
      [] ch = Tab -> <<Backslash, "t">>
      [] ch = LineFeed -> <<Backslash, "n">>
      [] ch = CarriageReturn -> <<Backslash, "r">>
      [] ch = Backspace -> <<Backslash, "b">>
      [] OTHER -> <<ch>>

\* s.translate(_TRANSLATE)
RECURSIVE TranslateAll(_)
TranslateAll(cs) ==
    IF cs = <<>> THEN <<>>
    ELSE Translate(Head(cs)) \o TranslateAll(Tail(cs))

\* the marker of NULL, backslash N
NullMarker == <<Backslash, "N">>

\* _escape_copy_text
EscapeCopyText(f) ==
    IF f.t = "none" THEN NullMarker
    ELSE LET s == Str(f)
         IN IF \A k \in 1..Len(s) :
                  s[k] \notin {Tab, LineFeed, CarriageReturn, Backslash}
            THEN s
            ELSE TranslateAll(s)

\* "\t".join(esc(v) for v in row), from field k on
RECURSIVE JoinFields(_, _)
JoinFields(row, k) ==
    IF k > Len(row) THEN <<>>
    ELSE IF k = Len(row) THEN EscapeCopyText(row[k])
    ELSE EscapeCopyText(row[k]) \o <<Tab>> \o JoinFields(row, k + 1)

\* _text_lines: the line of one row
TextLine(row) == JoinFields(row, 1) \o <<LineFeed>>

\* the characters of the texts and the fields of the rows
CharPool ==
    {Backslash, Tab, LineFeed, CarriageReturn, Backspace, "N", "t"}

FieldPool ==
    {NoneF, IntF(0), IntF(-12)}
        \cup { TextF(x) : x \in SeqsUpTo(CharPool, MaxTextLen) }

CxInit ==
    \E row \in SeqsUpTo(FieldPool, MaxFields) :
        /\ row # <<>>
        /\ cx = [pc |-> "row", row |-> row, line |-> <<>>]

\* the line of the row is produced
CxEncode ==
    /\ cx.pc = "row"
    /\ cx' = [cx EXCEPT !.pc = "encoded", !.line = TextLine(cx.row)]
    /\ UNCHANGED exceptCx

CodecNext == CxEncode

\* the row-encoding harness is idle while another part runs
CxIdle == cx = [pc |-> "idle", row |-> <<>>, line |-> <<>>]

(***************************************************************************)
(* The bulk loader's transaction: copy_rows.                               *)
(***************************************************************************)
RECURSIVE SeqToBag(_)
SeqToBag(rows) ==
    IF rows = <<>> THEN EmptyBag
    ELSE SetToBag({Head(rows)}) (+) SeqToBag(Tail(rows))

\* the staging table of a batch kind (StagingCopySpecs)
TableOf(kind) == IF kind = "group" THEN "group" ELSE "event"

\* a faulty commit that stores the rows twice
CommitTwice(stg, kind, txn) ==
    [stg EXCEPT ![TableOf(kind)] = @ (+) SeqToBag(txn) (+) SeqToBag(txn)]

\* dbapi_conn.commit(): the rows written in the transaction become visible
Commit(stg, kind, txn) ==
    [stg EXCEPT ![TableOf(kind)] = @ (+) SeqToBag(txn)]

\* a faulty rollback that leaves the rows written in the table
RollbackKeepsWritten(stg, kind, txn) == Commit(stg, kind, txn)

\* except Exception: dbapi_conn.rollback(): the rows written are discarded
Rollback(stg, kind, txn) == stg

\* len(line_bytes) of one row (the characters of the model are one byte)
LineBytes(row) == Len(TextLine(row))

\* _bytes_chunks: the (size, rows_in_chunk) pairs yielded from row k on,
\* with buf bytes and rows_in_buf rows in the buffer
RECURSIVE BytesChunks(_, _, _, _, _)
BytesChunks(rows, k, buf, rows_in_buf, max_chunk_bytes) ==
    IF k > Len(rows)
    THEN IF buf > 0 THEN << [bytes |-> buf, nrows |-> rows_in_buf] >>
         ELSE <<>>
    ELSE LET filled == buf + LineBytes(rows[k])
         IN IF filled >= max_chunk_bytes
            THEN << [bytes |-> filled, nrows |-> rows_in_buf + 1] >>
                     \o BytesChunks(rows, k + 1, 0, 0, max_chunk_bytes)
            ELSE BytesChunks(rows, k + 1, filled, rows_in_buf + 1,
                             max_chunk_bytes)

RECURSIVE SumRows(_)
SumRows(chunks) ==
    IF chunks = <<>> THEN 0 ELSE Head(chunks).nrows + SumRows(Tail(chunks))

\* a faulty total that counts the chunks written
ChunkedTotalCountsChunks(rows, max_chunk_bytes) ==
    Len(BytesChunks(rows, 1, 0, 0, max_chunk_bytes))

\* copy_rows, lines 228-236: total += nrows for every chunk written
ChunkedTotal(rows, max_chunk_bytes) ==
    SumRows(BytesChunks(rows, 1, 0, 0, max_chunk_bytes))

\* the count copy_rows returns: the rows written (chunked writer, for any
\* max_chunk_bytes) or -1 (file-like reader); the cursor's shape is tested
\* on every call
ReturnedCounts(rows) ==
    { ChunkedTotal(rows, m) : m \in 1..MaxChunkBytes } \cup {-1}

\* a faulty count that adds the driver's return value as it is
CopiedDeltaRaw(n, rows) == n

\* len(batch.rows) if n == -1 else n
CopiedDelta(n, rows) == IF n = -1 THEN Len(rows) ELSE n

(***************************************************************************)
(* The consumer processes: consumer_main and _process_batch.               *)
(***************************************************************************)
\* a faulty exit that goes back to the head of the loop
ConsumerExitLoops(c, code) ==
    [cons EXCEPT ![c].pc = "loop", ![c].exitcode = code]

\* break out of the loop (or an uncaught exception): the process exits
ConsumerExit(c, code) ==
    [cons EXCEPT ![c].pc = "exited", ![c].exitcode = code]

\* for attempt in range(cfg.copy_retries + 1)
AttemptRange == 0..cfg.copy_retries

\* if attempt >= cfg.copy_retries: return False
LastAttempt(attempt) == attempt >= cfg.copy_retries

\* a faulty consumer loop that stops after every batch
OnProcessResultStops(ok) == "set_stop"

\* a faulty consumer loop that goes on to the next batch after a failure
OnProcessResultGoesOn(ok) == "loop"

\* consumer_main: ok = _process_batch(...); if not ok: stop_event.set(); break
OnProcessResult(ok) == IF ok THEN "loop" ELSE "set_stop"

\* engine = get_engine(); loader = StagingLoader(engine)
ConsStart(c) ==
    /\ cons[c].pc = "start"
    /\ \/ cons' = [cons EXCEPT ![c].pc = "loop"]
       \/ cons' = ConsumerExit(c, 1)
    /\ UNCHANGED <<harnessVars, cfg, doc, queue, stop_event, metrics, prod, coord,
                   staging, exhausted>>

\* while True: if stop_event.is_set(): break
ConsLoop(c) ==
    /\ cons[c].pc = "loop"
    /\ cons' = IF stop_event THEN ConsumerExit(c, 0)
               ELSE [cons EXCEPT ![c].pc = "get"]
    /\ UNCHANGED <<harnessVars, cfg, doc, queue, stop_event, metrics, prod, coord,
                   staging, exhausted>>

\* msg = in_queue.get(timeout=...): an item, or the timeout on an empty queue
\* (sentinels counts the None messages the consumer has received)
ConsGet(c) ==
    /\ cons[c].pc = "get"
    /\ IF queue # <<>>
       THEN /\ queue' = Tail(queue)
            /\ cons' = IF Head(queue) = Sentinel
                       THEN [ConsumerExit(c, 0) EXCEPT ![c].sentinels = @ + 1]
                       ELSE [cons EXCEPT ![c].pc = "copy",
                                         ![c].msg = Head(queue),
                                         ![c].attempt = 0,
                                         ![c].tries = 0]
       ELSE /\ cons' = [cons EXCEPT ![c].pc = "loop"]
            /\ UNCHANGED queue
    /\ UNCHANGED <<harnessVars, cfg, doc, stop_event, metrics, prod, coord, staging,
                   exhausted>>

\* a faulty handler that counts only the failures that are retried
MetricsAfterErrorRetried(attempt) ==
    IF LastAttempt(attempt) THEN metrics ELSE Inc(metrics, "copy_errors", 1)

\* except Exception as e: metrics.inc(metrics.copy_errors, 1)
MetricsAfterError(attempt) == Inc(metrics, "copy_errors", 1)

\* _process_batch: except Exception: copy_errors += 1; return False on the
\* last attempt, else sleep and go on with the next attempt of the range
\* (return False when the range is used up)
ConsFailed(c, written) ==
    /\ staging' = Rollback(staging, cons[c].msg.kind, written)
    /\ metrics' = MetricsAfterError(cons[c].attempt)
    /\ IF LastAttempt(cons[c].attempt)
          \/ cons[c].attempt + 1 \notin AttemptRange
       THEN /\ cons' = [cons EXCEPT ![c].pc = OnProcessResult(FALSE),
                                    ![c].tries = cons[c].tries + 1,
                                    ![c].raised = cons[c].raised + 1]
            /\ exhausted' = exhausted \cup {c}
       ELSE /\ cons' = [cons EXCEPT ![c].pc = "copy",
                                    ![c].attempt = cons[c].attempt + 1,
                                    ![c].tries = cons[c].tries + 1,
                                    ![c].raised = cons[c].raised + 1]
            /\ UNCHANGED exhausted

\* one attempt, n = loader.copy_*(batch.rows): copy_rows writes the rows and
\* commits, or the driver raises after k rows were written (k = all of them:
\* the commit raised) and copy_rows rolls back.  Rows written and not yet
\* committed are visible to no other connection.
ConsCopy(c) ==
    /\ cons[c].pc = "copy"
    /\ \/ /\ staging' = Commit(staging, cons[c].msg.kind, cons[c].msg.rows)
          /\ cons' = [cons EXCEPT ![c].pc = "inc_copied",
                                  ![c].tries = cons[c].tries + 1]
          /\ UNCHANGED <<metrics, exhausted>>
       \/ \E k \in 0..Len(cons[c].msg.rows) :
              ConsFailed(c, SubSeq(cons[c].msg.rows, 1, k))
    /\ UNCHANGED <<harnessVars, cfg, doc, queue, stop_event, prod, coord>>

\* n = loader.copy_*(batch.rows) has returned;
\* metrics.inc(groups_copied | events_copied, len(batch.rows) if n == -1 else n)
ConsIncCopied(c) ==
    /\ cons[c].pc = "inc_copied"
    /\ \E n \in ReturnedCounts(cons[c].msg.rows) :
          metrics' = Inc(metrics,
                         IF cons[c].msg.kind = "group" THEN "groups_copied"
                         ELSE "events_copied",
                         CopiedDelta(n, cons[c].msg.rows))
    /\ cons' = [cons EXCEPT ![c].pc = "inc_batches_copied"]
    /\ UNCHANGED <<harnessVars, cfg, doc, queue, stop_event, prod, coord, staging,
                   exhausted>>

\* metrics.inc(batches_copied, 1); return True
ConsIncBatchesCopied(c) ==
    /\ cons[c].pc = "inc_batches_copied"
    /\ metrics' = Inc(metrics, "batches_copied", 1)
    /\ cons' = [cons EXCEPT ![c].pc = OnProcessResult(TRUE),
                            ![c].msg = NoMsg, ![c].attempt = 0,
                            ![c].tries = 0]
    /\ UNCHANGED <<harnessVars, cfg, doc, queue, stop_event, prod, coord, staging,
                   exhausted>>

\* if not ok: stop_event.set(); break
ConsSetStop(c) ==
    /\ cons[c].pc = "set_stop"
    /\ stop_event' = TRUE
    /\ cons' = ConsumerExit(c, 0)
    /\ UNCHANGED <<harnessVars, cfg, doc, queue, metrics, prod, coord, staging,
                   exhausted>>

Consumer ==
    \/ \E c \in Consumers : ConsStart(c)
    \/ \E c \in Consumers : ConsLoop(c)
    \/ \E c \in Consumers : ConsGet(c)
    \/ \E c \in Consumers : ConsCopy(c)
    \/ \E c \in Consumers : ConsIncCopied(c)
    \/ \E c \in Consumers : ConsIncBatchesCopied(c)
    \/ \E c \in Consumers : ConsSetStop(c)

(***************************************************************************)
(* The coordinator: run_pipeline, and its caller main.                     *)
(***************************************************************************)
\* p.exitcode not in (0, None)
\* a faulty test that finds every exit code in (0, None)
ExitedBadlyNever(p) == FALSE

\* p.exitcode not in (0, None)
ExitedBadly(p) == p.pc = "exited" /\ p.exitcode # 0

\* the progress loop leaves when stop is set or the producer is not alive;
\* producer.join(timeout=10) returns (the producer has exited, or the timeout
\* has passed); if producer.exitcode not in (0, None): stop_event.set()
\* a faulty update that stores the test's result in the flag
SetStopIfAssigns(bad) == bad

\* if <bad>: stop_event.set()  (the flag after the statement)
SetStopIf(bad) == stop_event \/ bad

\* a faulty loop that may be left at any time
LoopLeftAnyTime == TRUE

\* if stop_event.is_set(): break; if not producer.is_alive(): break
LoopLeft == stop_event \/ ~ProducerAlive

CoordLoop ==
    /\ coord.pc = "loop"
    /\ LoopLeft
    /\ stop_event' = SetStopIf(ExitedBadly(prod))
    /\ coord' = [coord EXCEPT !.pc = "sentinels"]
    /\ UNCHANGED <<harnessVars, cfg, doc, queue, metrics, prod, cons, staging,
                   exhausted>>

\* a faulty loop that runs once more than there are consumers
SentinelsDoneLate(sent) == sent = cfg.workers + 1

\* for _ in consumers: the loop has run once per consumer
SentinelsDone(sent) == sent = cfg.workers

\* for _ in consumers: queue.put(None)
CoordPutSentinel ==
    /\ coord.pc = "sentinels"
    /\ ~QueueFull(queue)
    /\ queue' = Append(queue, Sentinel)
    /\ coord' = [coord EXCEPT !.sent = coord.sent + 1,
                   !.pc = IF SentinelsDone(coord.sent + 1)
                          THEN "join_consumers" ELSE "sentinels"]
    /\ UNCHANGED <<harnessVars, cfg, doc, stop_event, metrics, prod, cons, staging,
                   exhausted>>

\* for p in consumers: p.join(timeout=30): every join returns (the consumer
\* has exited, or the timeout has passed; joined records the consumers that
\* had exited);
\* bad = [p for p in consumers if p.exitcode not in (0, None)]; if bad: stop
CoordJoinConsumers ==
    /\ coord.pc = "join_consumers"
    /\ stop_event' = SetStopIf(\E c \in Consumers : ExitedBadly(cons[c]))
    /\ coord' = [coord EXCEPT !.pc = "snapshot",
                              !.joined = { c \in Consumers :
                                             cons[c].pc = "exited" }]
    /\ UNCHANGED <<harnessVars, cfg, doc, queue, metrics, prod, cons, staging,
                   exhausted>>

\* final = metrics.snapshot(); return final  (drained records whether every
\* consumer had exited when the snapshot was taken)
CoordSnapshot ==
    /\ coord.pc = "snapshot"
    /\ coord' = [coord EXCEPT !.pc = "returned", !.final = Snapshot(metrics),
                              !.drained = \A c \in Consumers :
                                             cons[c].pc = "exited"]
    /\ UNCHANGED <<harnessVars, cfg, doc, queue, stop_event, metrics, prod, cons,
                   staging, exhausted>>

\* main: snap = run_pipeline(cfg); finalize(engine)
Main ==
    /\ coord.pc = "returned"
    /\ coord' = [coord EXCEPT !.pc = "main_done", !.finalized = TRUE]
    /\ UNCHANGED <<harnessVars, cfg, doc, queue, stop_event, metrics, prod, cons,
                   staging, exhausted>>

Coordinator ==
    \/ CoordLoop \/ CoordPutSentinel \/ CoordJoinConsumers
    \/ CoordSnapshot \/ Main

(***************************************************************************)
(* The extractor and the reader: _safe_int, parse_group_event and          *)
(* iter_group_events, driven as producer_main drives them.  An attribute   *)
(* is absent or a text, a sequence of characters; an integer is its sign   *)
(* and its decimal digits, of any length, as Python's int is.  Names are   *)
(* not modelled here.                                                      *)
(***************************************************************************)
MaxSubtrees == 2
MaxEventChildren == 2

AbsentAttr == [some |-> FALSE, chars |-> <<>>]
Attr(chars) == [some |-> TRUE, chars |-> chars]

DigitChars == {"0", "1", "2", "3", "4", "5", "6", "7", "8", "9"}

NoneInt == [ok |-> FALSE, neg |-> FALSE, mag |-> <<>>]

RECURSIVE StripZeros(_)
StripZeros(cs) ==
    IF Len(cs) > 1 /\ Head(cs) = "0" THEN StripZeros(Tail(cs)) ELSE cs

\* _safe_int: None for an absent value; int(value), or None on ValueError.
\* int() reads an optional sign and decimal digits, with no limit on size.
SafeInt(a) ==
    IF ~a.some THEN NoneInt
    ELSE LET signed == a.chars # <<>> /\ Head(a.chars) \in {"-", "+"}
             body == IF signed THEN Tail(a.chars) ELSE a.chars
         IN IF body # <<>> /\ \A k \in 1..Len(body) : body[k] \in DigitChars
            THEN LET mag == StripZeros(body)
                 IN [ok |-> TRUE,
                     neg |-> signed /\ Head(a.chars) = "-" /\ mag # <<"0">>,
                     mag |-> mag]
            ELSE NoneInt

\* GroupEventRecord and EventRecord
GroupEventRecord(id) == [kind |-> "group", id |-> id, group_event_id |-> id]
EventRecord(id, group_id) ==
    [kind |-> "event", id |-> id, group_event_id |-> group_id]
NoRecord == [kind |-> "none", id |-> NoneInt, group_event_id |-> NoneInt]

\* ParseResult
ParseResult(group, events, skipped) ==
    [group |-> group, events |-> events, skipped |-> skipped]

\* for ev in group_el.iterfind("event"): from child k on, with the events
\* and the skips collected so far
RECURSIVE ParseEvents(_, _, _, _, _)
ParseEvents(children, group_id, k, events, skipped) ==
    IF k > Len(children) THEN [events |-> events, skipped |-> skipped]
    ELSE LET ev_id == SafeInt(children[k].id)
         IN IF ~ev_id.ok
            THEN ParseEvents(children, group_id, k + 1, events, skipped + 1)
            ELSE ParseEvents(children, group_id, k + 1,
                             Append(events, EventRecord(ev_id, group_id)),
                             skipped)

\* a faulty extractor that counts the children of a group without id
ParseGroupEventCountsChildren(group_el) ==
    LET group_id == SafeInt(group_el.id)
    IN IF ~group_id.ok
       THEN ParseResult(NoRecord, <<>>, 1 + Len(group_el.events))
       ELSE LET r == ParseEvents(group_el.events, group_id, 1, <<>>, 0)
            IN ParseResult(GroupEventRecord(group_id), r.events, r.skipped)

\* parse_group_event
ParseGroupEvent(group_el) ==
    LET group_id == SafeInt(group_el.id)
    IN IF ~group_id.ok THEN ParseResult(NoRecord, <<>>, 1)
       ELSE LET r == ParseEvents(group_el.events, group_id, 1, <<>>, 0)
            IN ParseResult(GroupEventRecord(group_id), r.events, r.skipped)

\* ReaderStats()
NewReaderStats ==
    [groups_seen |-> 0, groups_emitted |-> 0, events_emitted |-> 0,
     skipped_records |-> 0]

\* faulty counters that count every subtree seen as emitted
StatsAfterCountsAll(stats, parsed) ==
    [stats EXCEPT !.groups_seen = @ + 1,
                  !.skipped_records = @ + parsed.skipped,
                  !.groups_emitted = @ + 1,
                  !.events_emitted = @ + Len(parsed.events)]

\* iter_group_events, lines 90-97: the counters after one subtree
StatsAfter(stats, parsed) ==
    LET seen == [stats EXCEPT !.groups_seen = @ + 1,
                              !.skipped_records = @ + parsed.skipped]
    IN IF parsed.group.kind = "group"
       THEN [seen EXCEPT !.groups_emitted = @ + 1,
                         !.events_emitted = @ + Len(parsed.events)]
       ELSE seen

\* 2^63 - 1, 2^63 and 2^63 + 1 in decimal
Digits2p63m1 ==
    <<"9", "2", "2", "3", "3", "7", "2", "0", "3", "6", "8", "5", "4",
      "7", "7", "5", "8", "0", "7">>
Digits2p63 ==
    <<"9", "2", "2", "3", "3", "7", "2", "0", "3", "6", "8", "5", "4",
      "7", "7", "5", "8", "0", "8">>
Digits2p63p1 ==
    <<"9", "2", "2", "3", "3", "7", "2", "0", "3", "6", "8", "5", "4",
      "7", "7", "5", "8", "0", "9">>

\* the id attributes of the documents
GroupIdPool ==
    { AbsentAttr, Attr(<<"x">>), Attr(<<"1">>), Attr(<<"0", "1">>),
      Attr(Digits2p63) }
EventIdPool ==
    { AbsentAttr, Attr(<<"7">>), Attr(<<"7", "x">>),
      Attr(<<"-">> \o Digits2p63p1) }

\* a <group_event> subtree: its id attribute and its direct <event> children
Subtrees ==
    { [id |-> g, events |-> evs] :
        g \in GroupIdPool,
        evs \in SeqsUpTo({ [id |-> e] : e \in EventIdPool },
                         MaxEventChildren) }

\* a faulty hand-over that passes the events before their group
HandedEventsFirst(parsed) == parsed.events \o <<parsed.group>>

\* producer_main, lines 82-95: the group goes to the group builder, then
\* the events go to the event builder one by one
Handed(parsed) == <<parsed.group>> \o parsed.events

RdInit ==
    \E d \in SeqsUpTo(Subtrees, MaxSubtrees) :
        rd = [pc |-> "iter", doc |-> d, pos |-> 0, stats |-> NewReaderStats,
              last |-> ParseResult(NoRecord, <<>>, 0), yielded |-> <<>>,
              stream |-> <<>>, skipped_records |-> 0]

\* the reader goes on to the next subtree (lines 89-98); when it yields a
\* bundle, producer_main leaves its loop if stop is set (lines 78-79), and
\* hands the group and then the events to the builders otherwise (85, 93)
RdNext ==
    /\ rd.pc = "iter"
    /\ rd.pos < Len(rd.doc)
    /\ LET parsed == ParseGroupEvent(rd.doc[rd.pos + 1])
           after == [rd EXCEPT !.pos = rd.pos + 1, !.last = parsed,
                               !.stats = StatsAfter(rd.stats, parsed)]
       IN IF parsed.group.kind = "group"
          THEN \E stop \in BOOLEAN :
                 rd' = [after EXCEPT
                          !.yielded = Append(@, parsed),
                          !.pc = IF stop THEN "finally" ELSE "iter",
                          !.stream = IF stop THEN @
                                     ELSE @ \o Handed(parsed)]
          ELSE rd' = after
    /\ UNCHANGED exceptRd

\* the document is exhausted: the loop ends
RdEnd ==
    /\ rd.pc = "iter"
    /\ rd.pos = Len(rd.doc)
    /\ rd' = [rd EXCEPT !.pc = "finally"]
    /\ UNCHANGED exceptRd

\* iterparse raises (XMLSyntaxError with recover=false, or OSError)
RdFatal ==
    /\ rd.pc = "iter"
    /\ rd' = [rd EXCEPT !.pc = "finally"]
    /\ UNCHANGED exceptRd

\* finally: metrics.inc(metrics.skipped_records, int(stats.skipped_records))
RdFinally ==
    /\ rd.pc = "finally"
    /\ rd' = [rd EXCEPT !.pc = "done",
                        !.skipped_records = @ + rd.stats.skipped_records]
    /\ UNCHANGED exceptRd

ReaderNext == RdNext \/ RdEnd \/ RdFatal \/ RdFinally

\* the reader harness is idle while another part runs
RdIdle ==
    rd = [pc |-> "idle", doc |-> <<>>, pos |-> 0, stats |-> NewReaderStats,
          last |-> ParseResult(NoRecord, <<>>, 0), yielded |-> <<>>,
          stream |-> <<>>, skipped_records |-> 0]

(***************************************************************************)
(* Finalization: finalize() moves the staging tables into the final        *)
(* tables inside one transaction.  A table is the set of its distinct      *)
(* rows; a staging table may hold several rows with one id.                *)
(***************************************************************************)
MaxStagingRows == 3
MaxFinalizeRuns == 2

StagingGroupIds == {1, 2}
StagingEventIds == {7, 8}
\* group 3 is referenced by events and never staged
ReferencedGroupIds == StagingGroupIds \cup {3}
StagingNames == {"a", "b"}

\* rows of stg_<groups> (id, name) and of stg_<events> (id, group_event_id, name)
StgGroupRows == [id : StagingGroupIds, name : StagingNames]

StgEventRows ==
    [id : StagingEventIds, group_event_id : ReferencedGroupIds,
     name : StagingNames]

TablesUpTo(rows, n) == { T \in SUBSET rows : Cardinality(T) <= n }

IdsOf(rows) == { r.id : r \in rows }

\* SELECT DISTINCT ON (id) ... ORDER BY id: one row for every id, and the
\* statement orders by id alone, so any row of an id can be the one kept
DistinctOn(rows) ==
    { T \in SUBSET rows :
        \A i \in IdsOf(rows) : Cardinality({ r \in T : r.id = i }) = 1 }

\* a faulty selection without the join
JoinedAll(stg_events, groups) == stg_events

\* FROM stg_<events> se JOIN <groups> ge ON ge.id = se.group_event_id
Joined(stg_events, groups) ==
    { se \in stg_events : se.group_event_id \in IdsOf(groups) }

\* ADD CONSTRAINT ... PRIMARY KEY (id) succeeds on a table without two rows
\* of one id
PrimaryKeyHolds(rows) == Cardinality(rows) = Cardinality(IdsOf(rows))

\* ADD CONSTRAINT ... FOREIGN KEY (group_event_id) REFERENCES <groups>(id)
ForeignKeyHolds(events, groups) ==
    \A e \in events : e.group_event_id \in IdsOf(groups)

FinalTables(groups, events) == [groups |-> groups, events |-> events]

NoConstraints == [pk_group |-> FALSE, pk_event |-> FALSE, fk |-> FALSE]

AllConstraints == [pk_group |-> TRUE, pk_event |-> TRUE, fk |-> TRUE]

\* staging as the consumers left it; the final tables are empty and carry
\* the constraints init_db created
FzInit ==
    \E sg \in TablesUpTo(StgGroupRows, MaxStagingRows) :
    \E se \in TablesUpTo(StgEventRows, MaxStagingRows) :
        fz = [pc |-> "drop", stg_groups |-> sg, stg_events |-> se,
              groups |-> {}, events |-> {}, constraints |-> AllConstraints,
              begun |-> FinalTables({}, {}), runs |-> 0,
              results |-> <<>>]

\* with engine.begin(); DROP CONSTRAINT fk, pk_event, pk_group; DROP INDEX
FzDrop ==
    /\ fz.pc = "drop"
    /\ fz' = [fz EXCEPT !.pc = "truncate", !.constraints = NoConstraints,
                        !.begun = FinalTables(fz.groups, fz.events)]
    /\ UNCHANGED exceptFz

\* TRUNCATE TABLE <events>; TRUNCATE TABLE <groups>
FzTruncate ==
    /\ fz.pc = "truncate"
    /\ fz' = [fz EXCEPT !.pc = "insert_groups", !.groups = {}, !.events = {}]
    /\ UNCHANGED exceptFz

\* INSERT INTO <groups> SELECT DISTINCT ON (id) id, name FROM stg ORDER BY id
FzInsertGroups ==
    /\ fz.pc = "insert_groups"
    /\ \E chosen \in DistinctOn(fz.stg_groups) :
          fz' = [fz EXCEPT !.pc = "insert_events",
                           !.groups = fz.groups \cup chosen]
    /\ UNCHANGED exceptFz

\* INSERT INTO <events> SELECT DISTINCT ON (se.id) ... JOIN ... ORDER BY se.id
FzInsertEvents ==
    /\ fz.pc = "insert_events"
    /\ \E chosen \in DistinctOn(Joined(fz.stg_events, fz.groups)) :
          fz' = [fz EXCEPT !.pc = "constraints",
                           !.events = fz.events \cup chosen]
    /\ UNCHANGED exceptFz

\* ADD PRIMARY KEY (groups), ADD PRIMARY KEY (events), CREATE INDEX,
\* ADD FOREIGN KEY, ANALYZE, commit; a statement that fails raises and the
\* transaction is rolled back
FzConstraints ==
    /\ fz.pc = "constraints"
    /\ LET ok == /\ PrimaryKeyHolds(fz.groups)
                 /\ PrimaryKeyHolds(fz.events)
                 /\ ForeignKeyHolds(fz.events, fz.groups)
       IN fz' = IF ok
                THEN [fz EXCEPT !.pc = "done", !.constraints = AllConstraints,
                                !.runs = fz.runs + 1,
                                !.results = Append(fz.results,
                                      FinalTables(fz.groups, fz.events))]
                ELSE [fz EXCEPT !.pc = "failed",
                                !.constraints = AllConstraints,
                                !.groups = fz.begun.groups,
                                !.events = fz.begun.events]
    /\ UNCHANGED exceptFz

\* finalize is called again over the same staging contents
FzAgain ==
    /\ fz.pc = "done"
    /\ fz.runs < MaxFinalizeRuns
    /\ fz' = [fz EXCEPT !.pc = "drop"]
    /\ UNCHANGED exceptFz

FinalizeNext ==
    FzDrop \/ FzTruncate \/ FzInsertGroups \/ FzInsertEvents
        \/ FzConstraints \/ FzAgain

\* the finalize harness is idle while another part runs
FzIdle ==
    fz = [pc |-> "idle", stg_groups |-> {}, stg_events |-> {}, groups |-> {},
          events |-> {}, constraints |-> AllConstraints,
          begun |-> FinalTables({}, {}), runs |-> 0, results |-> <<>>]

(***************************************************************************)
(* SharedMetrics under concurrent callers: pipeline/metrics.py.            *)
(* Each worker makes a bounded sequence of inc calls; one more process     *)
(* takes snapshots.  A step is one access to the lock or to one counter.   *)
(***************************************************************************)
MaxIncWorkers == 2
MaxIncCalls == 2
MaxDelta == 2
MaxSnapshots == 2

MxWorkers == 1..MaxIncWorkers

\* the holder id of the process that takes the snapshots
MxSnapshotter == MaxIncWorkers + 1

\* the counters the workers of the harness increment
MxFields == {"groups_copied", "batches_copied"}

MxCalls == [field : MxFields, delta : 0..MaxDelta]

\* the order in which snapshot reads the counters
SnapshotOrder ==
    <<"groups_parsed", "events_parsed", "groups_enqueued", "events_enqueued",
      "groups_copied", "events_copied", "batches_enqueued", "batches_copied",
      "skipped_records", "copy_errors">>

\* a lock that lets everybody in
LockFreeAlways(lock) == TRUE

\* Lock.acquire returns only when nobody holds the lock
LockFree(lock) == lock = 0

\* the inc call worker w is making
MxCall(w) == mx.calls[w][mx.at[w]]

MxCalling(w) == mx.pc = "run" /\ mx.at[w] <= Len(mx.calls[w])

\* the workers that are between acquiring and releasing the lock
MxInside == { w \in MxWorkers : mx.wpc[w] \in {"locked", "loaded", "stored"} }

MxInit ==
    \E calls \in [MxWorkers -> SeqsUpTo(MxCalls, MaxIncCalls)] :
        mx = [pc |-> "run", lock |-> 0, value |-> NewMetrics,
              calls |-> calls,
              at |-> [w \in MxWorkers |-> 1],
              wpc |-> [w \in MxWorkers |-> "call"],
              tmp |-> [w \in MxWorkers |-> 0],
              applied |-> NewMetrics,
              spc |-> "call", idx |-> 1, shot |-> NewMetrics,
              taken |-> <<>>, quiet |-> <<>>, results |-> <<>>]

\* inc: "if delta == 0: return", otherwise go on to the with statement
MxIncCall(w) ==
    /\ MxCalling(w)
    /\ mx.wpc[w] = "call"
    /\ mx' = IF MxCall(w).delta = 0
             THEN [mx EXCEPT !.at[w] = @ + 1]
             ELSE [mx EXCEPT !.wpc[w] = "acquire"]
    /\ UNCHANGED exceptMx

\* inc: "with self._lock" entered
MxIncAcquire(w) ==
    /\ MxCalling(w)
    /\ mx.wpc[w] = "acquire"
    /\ LockFree(mx.lock)
    /\ mx' = [mx EXCEPT !.lock = w, !.wpc[w] = "locked"]
    /\ UNCHANGED exceptMx

\* inc: the read of "field.value += int(delta)"
MxIncLoad(w) ==
    /\ MxCalling(w)
    /\ mx.wpc[w] = "locked"
    /\ mx' = [mx EXCEPT !.tmp[w] = mx.value[MxCall(w).field],
                        !.wpc[w] = "loaded"]
    /\ UNCHANGED exceptMx

\* inc: the write of "field.value += int(delta)"
MxIncStore(w) ==
    /\ MxCalling(w)
    /\ mx.wpc[w] = "loaded"
    /\ mx' = [mx EXCEPT !.value[MxCall(w).field] = mx.tmp[w] + MxCall(w).delta,
                        !.applied[MxCall(w).field] = @ + MxCall(w).delta,
                        !.wpc[w] = "stored"]
    /\ UNCHANGED exceptMx

\* inc: "with self._lock" left, the call returns
MxIncRelease(w) ==
    /\ MxCalling(w)
    /\ mx.wpc[w] = "stored"
    /\ mx' = [mx EXCEPT !.lock = 0, !.wpc[w] = "call", !.at[w] = @ + 1]
    /\ UNCHANGED exceptMx

\* snapshot: "with self._lock" entered
MxSnapAcquire ==
    /\ mx.pc = "run"
    /\ mx.spc = "call"
    /\ Len(mx.results) < MaxSnapshots
    /\ LockFree(mx.lock)
    /\ mx' = [mx EXCEPT !.lock = MxSnapshotter, !.spc = "read", !.idx = 1,
                        !.shot = NewMetrics,
                        !.taken = Append(@, mx.value),
                        !.quiet = Append(@, MxInside = {})]
    /\ UNCHANGED exceptMx

\* snapshot: one counter read into the MetricsSnapshot being built
MxSnapRead ==
    /\ mx.pc = "run"
    /\ mx.spc = "read"
    /\ mx.idx <= Len(SnapshotOrder)
    /\ mx' = [mx EXCEPT !.shot[SnapshotOrder[mx.idx]] =
                            mx.value[SnapshotOrder[mx.idx]],
                        !.idx = @ + 1]
    /\ UNCHANGED exceptMx

\* snapshot: "with self._lock" left, the MetricsSnapshot is returned
MxSnapRelease ==
    /\ mx.pc = "run"
    /\ mx.spc = "read"
    /\ mx.idx > Len(SnapshotOrder)
    /\ mx' = [mx EXCEPT !.lock = 0, !.spc = "call",
                        !.results = Append(@, mx.shot)]
    /\ UNCHANGED exceptMx

MetricsNext ==
    \/ (\E w \in MxWorkers : MxIncCall(w))
    \/ (\E w \in MxWorkers : MxIncAcquire(w))
    \/ (\E w \in MxWorkers : MxIncLoad(w))
    \/ (\E w \in MxWorkers : MxIncStore(w))
    \/ (\E w \in MxWorkers : MxIncRelease(w))
    \/ MxSnapAcquire
    \/ MxSnapRead
    \/ MxSnapRelease

\* the harness is not started while something else is exercised
MxIdle ==
    mx = [pc |-> "idle", lock |-> 0, value |-> NewMetrics,
          calls |-> [w \in MxWorkers |-> <<>>],
          at |-> [w \in MxWorkers |-> 1],
          wpc |-> [w \in MxWorkers |-> "call"],
          tmp |-> [w \in MxWorkers |-> 0],
          applied |-> NewMetrics,
          spc |-> "call", idx |-> 1, shot |-> NewMetrics,
          taken |-> <<>>, quiet |-> <<>>, results |-> <<>>]


(***************************************************************************)
(* The chunked writer of copy_rows: db/copy.py, _bytes_chunks and the loop *)
(* that hands every chunk to the driver's write.                           *)
(***************************************************************************)
MaxChunkRows == 3

\* rows whose lines are 2, 6 and 10 bytes long
CkRowPool ==
    { <<IntF(0)>>,
      <<IntF(-12), TextF(<<"t">>)>>,
      <<TextF(<<Tab, "N">>), NoneF, IntF(0)>> }

CkInit ==
    \E rows \in SeqsUpTo(CkRowPool, MaxChunkRows), m \in 1..MaxChunkBytes :
        ck = [pc |-> "rows", rows |-> rows, max_chunk_bytes |-> m, k |-> 1,
              buf |-> <<>>, rows_in_buf |-> 0, written |-> <<>>,
              total |-> 0]

\* _bytes_chunks, lines 108-120: the next row's line is appended to the
\* buffer; a buffer that has reached max_chunk_bytes is yielded and written
CkRow ==
    /\ ck.pc = "rows"
    /\ ck.k <= Len(ck.rows)
    /\ LET buf == ck.buf \o TextLine(ck.rows[ck.k])
           rows_in_buf == ck.rows_in_buf + 1
       IN ck' = IF Len(buf) >= ck.max_chunk_bytes
                THEN [ck EXCEPT !.k = @ + 1, !.buf = <<>>,
                                !.rows_in_buf = 0,
                                !.written = Append(@, buf),
                                !.total = @ + rows_in_buf]
                ELSE [ck EXCEPT !.k = @ + 1, !.buf = buf,
                                !.rows_in_buf = rows_in_buf]
    /\ UNCHANGED exceptCk

\* _bytes_chunks, lines 123-125: what is left in the buffer is yielded and
\* written; copy_rows commits and returns the total
CkTail ==
    /\ ck.pc = "rows"
    /\ ck.k > Len(ck.rows)
    /\ ck' = IF ck.buf # <<>>
             THEN [ck EXCEPT !.pc = "returned", !.buf = <<>>,
                             !.rows_in_buf = 0,
                             !.written = Append(@, ck.buf),
                             !.total = @ + ck.rows_in_buf]
             ELSE [ck EXCEPT !.pc = "returned"]
    /\ UNCHANGED exceptCk

ChunksNext == CkRow \/ CkTail

\* the chunk harness is idle while another part runs
CkIdle ==
    ck = [pc |-> "idle", rows |-> <<>>, max_chunk_bytes |-> 1, k |-> 1,
          buf |-> <<>>, rows_in_buf |-> 0, written |-> <<>>, total |-> 0]

(***************************************************************************)
(* finalize statement by statement: db/finalize.py.  Every statement of    *)
(* the transaction is a step, and any statement can raise.                 *)
(***************************************************************************)
MaxStatementRows == 2

\* a faulty order that fills the events table before the groups table
FinalizeStatementsEventsFirst ==
    <<"drop_fk", "drop_pk_event", "drop_pk_group", "drop_index",
      "truncate_events", "truncate_groups", "insert_events",
      "insert_groups", "add_pk_group", "add_pk_event", "create_index",
      "add_fk", "analyze_groups", "analyze_events">>

\* the statements finalize executes, in the order of the code
FinalizeStatements ==
    <<"drop_fk", "drop_pk_event", "drop_pk_group", "drop_index",
      "truncate_events", "truncate_groups", "insert_groups",
      "insert_events", "add_pk_group", "add_pk_event", "create_index",
      "add_fk", "analyze_groups", "analyze_events">>

\* the database: the final tables, their constraints and index, the
\* statistics of the final tables and the staging tables
Database(groups, events, present, stg_groups, stg_events) ==
    [groups |-> groups, events |-> events,
     pk_group |-> present, pk_event |-> present, ix |-> present,
     fk |-> present, analyzed |-> {},
     stg_groups |-> stg_groups, stg_events |-> stg_events]

\* the databases a statement can leave behind (DISTINCT ON leaves the row
\* kept for an id open); no database when the statement raises on its own
Execute(stmt, db) ==
    CASE stmt = "drop_fk" -> { [db EXCEPT !.fk = FALSE] }
      [] stmt = "drop_pk_event" -> { [db EXCEPT !.pk_event = FALSE] }
      [] stmt = "drop_pk_group" -> { [db EXCEPT !.pk_group = FALSE] }
      [] stmt = "drop_index" -> { [db EXCEPT !.ix = FALSE] }
      [] stmt = "truncate_events" -> { [db EXCEPT !.events = {}] }
      [] stmt = "truncate_groups" -> { [db EXCEPT !.groups = {}] }
      [] stmt = "insert_groups" ->
            { [db EXCEPT !.groups = @ \cup chosen] :
                chosen \in DistinctOn(db.stg_groups) }
      [] stmt = "insert_events" ->
            { [db EXCEPT !.events = @ \cup chosen] :
                chosen \in DistinctOn(Joined(db.stg_events, db.groups)) }
      [] stmt = "add_pk_group" ->
            IF PrimaryKeyHolds(db.groups) /\ ~db.pk_group
            THEN { [db EXCEPT !.pk_group = TRUE] } ELSE {}
      [] stmt = "add_pk_event" ->
            IF PrimaryKeyHolds(db.events) /\ ~db.pk_event
            THEN { [db EXCEPT !.pk_event = TRUE] } ELSE {}
      [] stmt = "create_index" ->
            IF ~db.ix THEN { [db EXCEPT !.ix = TRUE] } ELSE {}
      [] stmt = "add_fk" ->
            IF ForeignKeyHolds(db.events, db.groups) /\ db.pk_group /\ ~db.fk
            THEN { [db EXCEPT !.fk = TRUE] } ELSE {}
      [] stmt = "analyze_groups" ->
            { [db EXCEPT !.analyzed = @ \cup {"groups"}] }
      [] stmt = "analyze_events" ->
            { [db EXCEPT !.analyzed = @ \cup {"events"}] }

\* a transaction that keeps what was done when it is abandoned
AbortKeeps(db, begun) == db

\* leaving "with engine.begin()" through an exception rolls back
Abort(db, begun) == begun

\* the final tables before finalize: as init_db created them, or as an
\* earlier finalize left them, or without constraints
FsPriors ==
    { Database({}, {}, TRUE, {}, {}),
      Database({[id |-> 1, name |-> "a"]},
               {[id |-> 7, group_event_id |-> 1, name |-> "a"]},
               TRUE, {}, {}),
      Database({[id |-> 2, name |-> "b"]}, {}, FALSE, {}, {}) }

FsInit ==
    \E sg \in TablesUpTo(StgGroupRows, MaxStatementRows) :
    \E se \in TablesUpTo(StgEventRows, MaxStatementRows) :
    \E prior \in FsPriors :
        LET db == [prior EXCEPT !.stg_groups = sg, !.stg_events = se]
        IN fs = [pc |-> "call", at |-> 1, log |-> <<>>, db |-> db,
                 before |-> db]

\* with engine.begin() as conn
FsBegin ==
    /\ fs.pc = "call"
    /\ fs' = [fs EXCEPT !.pc = "run"]
    /\ UNCHANGED exceptFs

\* raw.execute(...) of the next statement returns
FsExecute ==
    /\ fs.pc = "run"
    /\ fs.at <= Len(FinalizeStatements)
    /\ \E db \in Execute(FinalizeStatements[fs.at], fs.db) :
          fs' = [fs EXCEPT !.db = db, !.at = @ + 1,
                           !.log = Append(@, FinalizeStatements[fs.at])]
    /\ UNCHANGED exceptFs

\* raw.execute(...) of the next statement raises (the statement fails on
\* the data, or the driver reports a lost connection, a lock timeout, a
\* cancel); the exception leaves the with block
FsRaise ==
    /\ fs.pc = "run"
    /\ fs.at <= Len(FinalizeStatements)
    /\ fs' = [fs EXCEPT !.pc = "rolled_back",
                        !.db = Abort(fs.db, fs.before)]
    /\ UNCHANGED exceptFs

\* the with block is left normally: commit
FsCommit ==
    /\ fs.pc = "run"
    /\ fs.at > Len(FinalizeStatements)
    /\ fs' = [fs EXCEPT !.pc = "committed"]
    /\ UNCHANGED exceptFs

StatementsNext == FsBegin \/ FsExecute \/ FsRaise \/ FsCommit

\* the statement harness is idle while another part runs
FsIdle ==
    fs = [pc |-> "idle", at |-> 1, log |-> <<>>,
          db |-> Database({}, {}, TRUE, {}, {}),
          before |-> Database({}, {}, TRUE, {}, {})]

(***************************************************************************)
(* The lists behind the batches: pipeline/batching.py with the identity of *)
(* every list kept, the queue's feeder thread that pickles a batch some    *)
(* time after put, and the consumer that reads the batch it received.      *)
(***************************************************************************)
MaxAliasRows == 3

\* the list objects of the producer's heap
ListIds == 1..(MaxAliasRows + 2)

\* self._rows[:] = rows, the list object stays the same
RebindInPlace(heap, ref, fresh, rows) ==
    [ref |-> ref, heap |-> [heap EXCEPT ![ref] = rows]]

\* self._rows = [row] and self._rows = []: a new list object is bound
Rebind(heap, ref, fresh, rows) ==
    [ref |-> fresh, heap |-> [heap EXCEPT ![fresh] = rows]]

\* the builder of the harness as BatchBuilder sees it
AlBuilder(a) ==
    [kind |-> "event", max_rows |-> a.max_rows, max_bytes |-> a.max_bytes,
     rows |-> a.heap[a.ref], bytes |-> a.bytes]

\* out = Batch(kind=self.kind, rows=self._rows), the builder goes on with
\* the given rows and bytes, and the producer puts the batch on the queue
AlEmit(a, rows, bytes) ==
    LET r == Rebind(a.heap, a.ref, a.next, rows)
    IN [a EXCEPT !.ref = r.ref, !.heap = r.heap, !.bytes = bytes,
                 !.next = @ + 1,
                 !.handed = Append(@, [ref |-> a.ref, rows |-> a.heap[a.ref]]),
                 !.buffer = Append(@, Len(a.handed) + 1)]

\* BatchBuilder.flush on the heap
AlFlushed(a) ==
    IF a.heap[a.ref] = <<>> THEN a ELSE AlEmit(a, <<>>, 0)

\* BatchBuilder.add on the heap
AlAdded(a, row) ==
    LET row_bytes == EstimateRowBytes(row) IN
    IF WouldOverflow(AlBuilder(a), row_bytes)
    THEN AlEmit(a, <<row>>, row_bytes)
    ELSE LET a2 == [a EXCEPT !.heap[a.ref] = Append(@, row),
                             !.bytes = @ + row_bytes]
         IN IF LimitReached(AlBuilder(a2)) THEN AlFlushed(a2) ELSE a2

AlInit ==
    \E mr \in 1..MaxBatchRows, mb \in 1..MaxBatchBytes,
       input \in SeqsUpTo(RowPool, MaxAliasRows) :
        al = [pc |-> "loop", input |-> input, pos |-> 0,
              max_rows |-> mr, max_bytes |-> mb,
              ref |-> 1, bytes |-> 0, next |-> 2,
              heap |-> [i \in ListIds |-> <<>>],
              handed |-> <<>>, buffer |-> <<>>, piped |-> <<>>,
              received |-> <<>>]

\* maybe = builder.add(row); if maybe is not None: _put_batch(maybe)
AlAdd ==
    /\ al.pc = "loop"
    /\ al.pos < Len(al.input)
    /\ al' = [AlAdded(al, al.input[al.pos + 1]) EXCEPT !.pos = al.pos + 1]
    /\ UNCHANGED exceptAl

\* tail = builder.flush(); if tail is not None: _put_batch(tail)
AlFlush ==
    /\ al.pc = "loop"
    /\ al' = [AlFlushed(al) EXCEPT
                !.pc = IF al.pos = Len(al.input) THEN "flushed" ELSE "loop"]
    /\ UNCHANGED exceptAl

\* the feeder thread of the queue pickles the oldest batch of its buffer
\* and writes the bytes to the pipe
AlFeed ==
    /\ al.buffer # <<>>
    /\ al' = [al EXCEPT
                !.buffer = Tail(@),
                !.piped = Append(@, al.heap[al.handed[Head(al.buffer)].ref])]
    /\ UNCHANGED exceptAl

\* a consumer gets the next batch and _process_batch reads its rows
AlProcess ==
    /\ Len(al.received) < Len(al.piped)
    /\ LET rows == al.piped[Len(al.received) + 1]
       IN al' = [al EXCEPT
                   !.received = Append(@, [rows |-> rows, after |-> rows])]
    /\ UNCHANGED exceptAl

AliasNext == AlAdd \/ AlFlush \/ AlFeed \/ AlProcess

\* the aliasing harness is idle while another part runs
AlIdle ==
    al = [pc |-> "idle", input |-> <<>>, pos |-> 0,
          max_rows |-> 1, max_bytes |-> 1, ref |-> 1, bytes |-> 0,
          next |-> 2, heap |-> [i \in ListIds |-> <<>>],
          handed |-> <<>>, buffer |-> <<>>, piped |-> <<>>,
          received |-> <<>>]

(***************************************************************************)
(* The tree behind iter_group_events: xml/reader.py, lines 81-108.  The    *)
(* children of the root are <group_event> elements, valid or to be         *)
(* skipped, and elements of other tags; iterparse attaches what it has     *)
(* parsed, which can be more than it has reported, and reports the end of  *)
(* every <group_event> in document order.                                  *)
(***************************************************************************)
MaxTreeNodes == 4

NodeKinds == {"valid", "skipped", "other"}

IsGroup(kind) == kind \in {"valid", "skipped"}

\* a cleanup that deletes nothing
LeftSiblingsKept(attached, ge) == attached

\* while ge.getprevious() is not None: del parent[0]
LeftSiblingsDeleted(attached, ge) == { i \in attached : i >= ge }

\* the <group_event> elements parsed and not yet reported
TrPending ==
    { i \in (tr.cur + 1)..tr.parsed : IsGroup(tr.doc[i]) }

TrInit ==
    \E d \in SeqsUpTo(NodeKinds, MaxTreeNodes) :
        tr = [pc |-> "next", doc |-> d, parsed |-> 0, cur |-> 0,
              attached |-> {}, cleared |-> {}, yielded |-> <<>>]

\* inside next(context): the parser reads on and attaches the next element
TrParse ==
    /\ tr.pc = "next"
    /\ tr.parsed < Len(tr.doc)
    /\ tr' = [tr EXCEPT !.parsed = @ + 1,
                        !.attached = @ \cup {tr.parsed + 1}]
    /\ UNCHANGED exceptTr

\* next(context) returns the end of the next <group_event>; lines 90-98:
\* parse_group_event, and the bundle is yielded if the group is valid
TrEvent ==
    /\ tr.pc = "next"
    /\ TrPending # {}
    /\ LET ge == CHOOSE i \in TrPending : \A j \in TrPending : i <= j
       IN tr' = IF tr.doc[ge] = "valid"
                THEN [tr EXCEPT !.cur = ge, !.pc = "yielded",
                                !.yielded = Append(@, ge)]
                ELSE [tr EXCEPT !.cur = ge, !.pc = "cleanup"]
    /\ UNCHANGED exceptTr

\* the caller asks for the next bundle: the generator goes on after yield
TrResume ==
    /\ tr.pc = "yielded"
    /\ tr' = [tr EXCEPT !.pc = "cleanup"]
    /\ UNCHANGED exceptTr

\* the caller leaves its loop (producer_main, lines 78-79) and the
\* generator is closed at the yield
TrAbandon ==
    /\ tr.pc = "yielded"
    /\ tr' = [tr EXCEPT !.pc = "closed"]
    /\ UNCHANGED exceptTr

\* lines 101-105: ge.clear(), then the left siblings are deleted
TrCleanup ==
    /\ tr.pc = "cleanup"
    /\ tr' = [tr EXCEPT !.pc = "next",
                        !.cleared = @ \cup {tr.cur},
                        !.attached = LeftSiblingsDeleted(@, tr.cur)]
    /\ UNCHANGED exceptTr

\* the document is exhausted: the loop ends, del context
TrEnd ==
    /\ tr.pc = "next"
    /\ tr.parsed = Len(tr.doc)
    /\ TrPending = {}
    /\ tr' = [tr EXCEPT !.pc = "done"]
    /\ UNCHANGED exceptTr

TreeNext ==
    TrParse \/ TrEvent \/ TrResume \/ TrAbandon \/ TrCleanup \/ TrEnd

\* the tree harness is idle while another part runs
TrIdle ==
    tr = [pc |-> "idle", doc |-> <<>>, parsed |-> 0, cur |-> 0,
          attached |-> {}, cleared |-> {}, yielded |-> <<>>]

(***************************************************************************)
(* Specifications.                                                         *)
(***************************************************************************)
\* the harnesses are idle while the pipeline runs
HarnessesIdle ==
    BtIdle /\ RdIdle /\ CxIdle /\ FzIdle /\ MxIdle /\ CkIdle /\ FsIdle
        /\ AlIdle /\ TrIdle

PipeNext == Producer \/ Consumer \/ Coordinator

Init == PipeInit /\ HarnessesIdle

Next == PipeNext

Spec == Init /\ [][Next]_vars

\* the steps of consumer c
ConsumerSteps(c) ==
    \/ ConsStart(c) \/ ConsLoop(c) \/ ConsGet(c) \/ ConsCopy(c)
    \/ ConsIncCopied(c) \/ ConsIncBatchesCopied(c) \/ ConsSetStop(c)

\* every process is scheduled and every call it makes returns when it can:
\* a process that stays able to take its next step takes it
Fairness ==
    /\ WF_vars(Producer)
    /\ WF_vars(Coordinator)
    /\ \A c \in 0..(MaxWorkers - 1) :
          WF_vars(c \in Consumers /\ ConsumerSteps(c))

\* termination is checked on the documents of up to MaxFairGroups groups
InitFair == Init /\ Len(doc) <= MaxFairGroups

SpecFair == InitFair /\ [][Next]_vars /\ Fairness

\* the pipeline is not started while the batch builder is exercised alone
PipeIdle ==
    /\ cfg = [workers |-> 1, queue_maxsize |-> 1, batch_max_rows |-> 1,
              batch_max_bytes |-> 1, copy_retries |-> 0]
    /\ doc = <<>>
    /\ queue = <<>>
    /\ stop_event = FALSE
    /\ metrics = NewMetrics
    /\ prod = NewProducer(cfg)
    /\ cons = [c \in Consumers |-> NewConsumer]
    /\ coord = [pc |-> "idle", sent |-> 0, final |-> NewMetrics,
                drained |-> FALSE, finalized |-> FALSE,
                joined |-> {}]
    /\ staging = [group |-> EmptyBag, event |-> EmptyBag]
    /\ exhausted = {}

InitBatch ==
    BtInit /\ PipeIdle /\ RdIdle /\ CxIdle /\ FzIdle /\ MxIdle /\ CkIdle
        /\ FsIdle /\ AlIdle /\ TrIdle

SpecBatch == InitBatch /\ [][BtNext]_vars

InitCodec ==
    CxInit /\ PipeIdle /\ BtIdle /\ RdIdle /\ FzIdle /\ MxIdle /\ CkIdle
        /\ FsIdle /\ AlIdle /\ TrIdle

SpecCodec == InitCodec /\ [][CodecNext]_vars

InitReader ==
    RdInit /\ PipeIdle /\ BtIdle /\ CxIdle /\ FzIdle /\ MxIdle /\ CkIdle
        /\ FsIdle /\ AlIdle /\ TrIdle

SpecReader == InitReader /\ [][ReaderNext]_vars

InitFinalize ==
    FzInit /\ PipeIdle /\ BtIdle /\ RdIdle /\ CxIdle /\ MxIdle /\ CkIdle
        /\ FsIdle /\ AlIdle /\ TrIdle

SpecFinalize == InitFinalize /\ [][FinalizeNext]_vars

InitMetrics ==
    MxInit /\ PipeIdle /\ BtIdle /\ RdIdle /\ CxIdle /\ FzIdle /\ CkIdle
        /\ FsIdle /\ AlIdle /\ TrIdle

SpecMetrics == InitMetrics /\ [][MetricsNext]_vars

InitChunks ==
    CkInit /\ PipeIdle /\ BtIdle /\ RdIdle /\ CxIdle /\ FzIdle /\ MxIdle
        /\ FsIdle /\ AlIdle /\ TrIdle

SpecChunks == InitChunks /\ [][ChunksNext]_vars

InitStatements ==
    FsInit /\ PipeIdle /\ BtIdle /\ RdIdle /\ CxIdle /\ FzIdle /\ MxIdle
        /\ CkIdle /\ AlIdle /\ TrIdle

SpecStatements == InitStatements /\ [][StatementsNext]_vars

InitAlias ==
    AlInit /\ PipeIdle /\ BtIdle /\ RdIdle /\ CxIdle /\ FzIdle /\ MxIdle
        /\ CkIdle /\ FsIdle /\ TrIdle

SpecAlias == InitAlias /\ [][AliasNext]_vars

InitTree ==
    TrInit /\ PipeIdle /\ BtIdle /\ RdIdle /\ CxIdle /\ FzIdle /\ MxIdle
        /\ CkIdle /\ FsIdle /\ AlIdle

SpecTree == InitTree /\ [][TreeNext]_vars

(***************************************************************************)
(* Claims about the batch builder (checked under SpecBatch).               *)
(***************************************************************************)
RECURSIVE RowsBytes(_, _)
RowsBytes(rows, k) ==
    IF k > Len(rows) THEN 0
    ELSE EstimateRowBytes(rows[k]) + RowsBytes(rows, k + 1)

RECURSIVE ConcatRows(_, _)
ConcatRows(batches, k) ==
    IF k > Len(batches) THEN <<>>
    ELSE batches[k].rows \o ConcatRows(batches, k + 1)

\* C7: every batch returned by add or flush has rows <= max_rows and
\* (estimated bytes <= max_bytes or exactly one row).
C7_SizeLaw ==
    \A k \in 1..Len(bt.out) :
        /\ Len(bt.out[k].rows) <= bt.b.max_rows
        /\ \/ RowsBytes(bt.out[k].rows, 1) <= bt.b.max_bytes
           \/ Len(bt.out[k].rows) = 1

\* a one-row batch over max_bytes and a multi-row batch filled to max_rows
\* have both been returned
C7_Witness ==
    /\ \E k \in 1..Len(bt.out) :
          /\ Len(bt.out[k].rows) = 1
          /\ RowsBytes(bt.out[k].rows, 1) > bt.b.max_bytes
    /\ \E k \in 1..Len(bt.out) :
          /\ Len(bt.out[k].rows) = bt.b.max_rows
          /\ bt.b.max_rows > 1

\* C8: the rows of the returned batches, concatenated in emission order and
\* followed by the rows still held, are the rows added so far; after the
\* final flush they are the whole input; no returned batch is empty.
C8_RowConservation ==
    /\ ConcatRows(bt.out, 1) \o bt.b.rows = SubSeq(bt.input, 1, bt.pos)
    /\ bt.pc = "done" => ConcatRows(bt.out, 1) = bt.input
    /\ \A k \in 1..Len(bt.out) : bt.out[k].some /\ bt.out[k].rows # <<>>

\* iter_batches has finished an input holding an oversized row between
\* other rows, and returned several batches
C8_Witness ==
    /\ bt.pc = "done"
    /\ Len(bt.out) >= 3
    /\ Len(bt.input) = MaxInputRows
    /\ \E k \in 2..(Len(bt.out) - 1) :
          /\ Len(bt.out[k].rows) = 1
          /\ RowsBytes(bt.out[k].rows, 1) > bt.b.max_bytes

(***************************************************************************)
(* Claims about the running pipeline (checked under Spec).                 *)
(***************************************************************************)
Returned == coord.pc \in {"returned", "main_done"}

NoWorkerExitedBadly ==
    /\ ~ExitedBadly(prod)
    /\ \A c \in Consumers : ~ExitedBadly(cons[c])

CountersEqual(m) ==
    /\ m.groups_parsed = m.groups_enqueued
    /\ m.groups_enqueued = m.groups_copied
    /\ m.events_parsed = m.events_enqueued
    /\ m.events_enqueued = m.events_copied

\* consumers holding a dequeued batch not yet counted in batches_copied
InFlight ==
    { c \in Consumers :
        cons[c].pc \in {"copy", "inc_copied", "inc_batches_copied"} }

\* C1: in clean runs, runs where a consumer exhausts its retries and runs
\* where the producer crashes, run_pipeline goes on to return the final
\* snapshot: in no reachable state of such a run has every process come to
\* a halt (the coordinator blocked for ever on the queue or on a worker)
\* before the coordinator returned.
C1_CoordinatorReturns ==
    ((~ ENABLED Next) /\ \A c \in Consumers : ~ExitedBadly(cons[c]))
        => Returned

C3_FinalizeOnlyAfterCleanRun ==
    coord.finalized => (~stop_event /\ NoWorkerExitedBadly)

\* C4: in every reachable state parsed >= enqueued >= copied, for groups
\* and for events.
C4_CounterOrder ==
    /\ metrics.groups_parsed >= metrics.groups_enqueued
    /\ metrics.groups_enqueued >= metrics.groups_copied
    /\ metrics.events_parsed >= metrics.events_enqueued
    /\ metrics.events_enqueued >= metrics.events_copied

\* C5: in every reachable state batches_enqueued >= batches_copied + the
\* number of batches dequeued and not yet counted in batches_copied.
C5_BatchesInFlight ==
    metrics.batches_enqueued
        >= metrics.batches_copied + Cardinality(InFlight)

\* C6: the queue never holds more than queue_maxsize items (a put waits
\* while it is full), and batches_enqueued - batches_copied
\* <= queue_maxsize + workers in every reachable state.
C6_Backpressure ==
    /\ Len(queue) <= cfg.queue_maxsize
    /\ prod.pc = "put" /\ Len(queue) = cfg.queue_maxsize => ~ ENABLED ProdPut
    /\ metrics.batches_enqueued - metrics.batches_copied
          <= cfg.queue_maxsize + cfg.workers

\* the producer waits on a full queue while every consumer holds a batch
\* and the bound is met with equality
C6_Witness ==
    /\ prod.pc = "put"
    /\ Len(queue) = cfg.queue_maxsize
    /\ Cardinality(InFlight) = cfg.workers
    /\ metrics.batches_enqueued - metrics.batches_copied
          = cfg.queue_maxsize + cfg.workers

\* C9: a consumer attempts the load of one batch at most copy_retries + 1
\* times; when every attempt has failed it sets stop and exits, and it
\* neither dequeues nor loads anything after that.
C9_RetryBound ==
    \A c \in Consumers :
        /\ cons[c].tries <= cfg.copy_retries + 1
        /\ c \in exhausted =>
              /\ cons[c].tries = cfg.copy_retries + 1
              /\ cons[c].pc \in {"set_stop", "exited"}
              /\ cons[c].pc = "exited" => stop_event /\ cons[c].exitcode = 0

\* a consumer has used up a budget of at least one retry and exited with
\* stop set while a batch was still waiting in the queue
C9_Witness ==
    \E c \in Consumers :
        /\ c \in exhausted
        /\ cfg.copy_retries >= 1
        /\ cons[c].pc = "exited"
        /\ stop_event
        /\ \E k \in 1..Len(queue) : queue[k] # Sentinel

RowsOf(c) == { cons[c].msg.rows[k] : k \in 1..Len(cons[c].msg.rows) }

StagedCopies(c, row) == CopiesIn(row, staging[TableOf(cons[c].msg.kind)])

\* C10: each attempt either commits all rows of its batch or leaves none:
\* while a batch is being attempted, and after its last attempt has failed,
\* none of its rows is in staging; once an attempt has succeeded each of
\* its rows is there exactly once, however many attempts failed before.
C10_AttemptAtomic ==
    \A c \in Consumers :
        /\ cons[c].pc \in {"copy", "set_stop"} \/ c \in exhausted =>
              \A row \in RowsOf(c) : StagedCopies(c, row) = 0
        /\ cons[c].pc \in {"inc_copied", "inc_batches_copied"} =>
              \A row \in RowsOf(c) : StagedCopies(c, row) = 1

\* a batch of two rows has been committed after a failed attempt
C10_Witness ==
    \E c \in Consumers :
        /\ cons[c].pc = "inc_copied"
        /\ cons[c].attempt >= 1
        /\ Len(cons[c].msg.rows) >= 2
        /\ \A row \in RowsOf(c) : StagedCopies(c, row) = 1

\* the None messages waiting in the queue
SentinelsQueued ==
    Cardinality({ k \in 1..Len(queue) : queue[k] = Sentinel })

RECURSIVE SentinelsTaken(_)
SentinelsTaken(C) ==
    IF C = {} THEN 0
    ELSE LET c == CHOOSE x \in C : TRUE
         IN cons[c].sentinels + SentinelsTaken(C \ {c})

BadId(a) == ~SafeInt(a).ok

BadChildren(sub) ==
    Cardinality({ j \in 1..Len(sub.events) : BadId(sub.events[j].id) })

GoodChild(e) == ~BadId(e.id)

\* the subtrees the reader has gone through
Seen == 1..rd.pos

RECURSIVE SumOver(_, _)
SumOver(f, K) ==
    IF K = {} THEN 0
    ELSE LET k == CHOOSE x \in K : TRUE IN f[k] + SumOver(f, K \ {k})

\* C12: at the end of the producer's run skipped_records is the number of
\* subtrees seen whose group id is missing or unparseable plus the number
\* of event children with a missing or unparseable id under the seen groups
\* with a valid id.
C12_SkippedRecords ==
    rd.pc = "done" =>
        rd.skipped_records =
            Cardinality({ k \in Seen : BadId(rd.doc[k].id) })
            + SumOver([k \in Seen |-> BadChildren(rd.doc[k])],
                      { k \in Seen : ~BadId(rd.doc[k].id) })

\* the run has ended after a group without a valid id that had event
\* children, and a valid group with a bad and a good event child
C12_Witness ==
    /\ rd.pc = "done"
    /\ rd.pos = MaxSubtrees
    /\ \E k \in Seen : BadId(rd.doc[k].id) /\ Len(rd.doc[k].events) >= 2
    /\ \E k \in Seen :
          /\ ~BadId(rd.doc[k].id)
          /\ BadChildren(rd.doc[k]) = 1
          /\ Len(rd.doc[k].events) = 2
    /\ rd.skipped_records = 2

\* C13: for the subtree just parsed: with a missing or unparseable group id
\* the result is no group, no events, skipped = 1; otherwise it holds the
\* group, the event children with a parseable id in document order, each
\* with the group's id, and skipped counts the other children.  The reader
\* yields a bundle exactly for the subtrees whose group is present, and
\* groups_seen, groups_emitted and events_emitted count accordingly.
C13_ExtractorSkipPolicy ==
    /\ rd.pos >= 1 =>
          LET sub == rd.doc[rd.pos]
              res == rd.last
              good == SelectSeq(sub.events, GoodChild)
          IN IF BadId(sub.id)
             THEN res.group.kind = "none" /\ res.events = <<>>
                  /\ res.skipped = 1
             ELSE /\ res.group = GroupEventRecord(SafeInt(sub.id))
                  /\ Len(res.events) = Len(good)
                  /\ \A j \in 1..Len(good) :
                        /\ res.events[j].kind = "event"
                        /\ res.events[j].id = SafeInt(good[j].id)
                        /\ res.events[j].group_event_id = SafeInt(sub.id)
                  /\ res.skipped = Len(sub.events) - Len(good)
    /\ Len(rd.yielded) = Cardinality({ k \in Seen : ~BadId(rd.doc[k].id) })
    /\ \A k \in 1..Len(rd.yielded) : rd.yielded[k].group.kind = "group"
    /\ rd.stats.groups_seen = rd.pos
    /\ rd.stats.groups_emitted = Len(rd.yielded)
    /\ rd.stats.events_emitted =
          SumOver([k \in 1..Len(rd.yielded) |-> Len(rd.yielded[k].events)],
                  1..Len(rd.yielded))

\* a valid group with a bad event child followed by a good one
\* has just been parsed, after a subtree without a valid group id
C13_Witness ==
    /\ rd.pos = 2
    /\ BadId(rd.doc[1].id) /\ rd.doc[1].events # <<>>
    /\ ~BadId(rd.doc[2].id)
    /\ Len(rd.doc[2].events) = 2
    /\ BadId(rd.doc[2].events[1].id)
    /\ Len(rd.last.events) = 1
    /\ rd.stats.groups_emitted = 1

GroupsWithId(id) ==
    { j \in 1..Len(rd.stream) :
        rd.stream[j].kind = "group" /\ rd.stream[j].id = id }

\* C14 as stated: for every event handed to the event builder exactly one
\* group with the event's group_id was handed to the group builder, and it
\* was handed at or before the event.
C14_EventGroupOrder_AsStated ==
    \A k \in 1..Len(rd.stream) :
        rd.stream[k].kind = "event" =>
            /\ Cardinality(GroupsWithId(rd.stream[k].group_event_id)) = 1
            /\ \E j \in GroupsWithId(rd.stream[k].group_event_id) : j < k

\* no two subtrees gone through carry the same valid group id
DistinctGroupIds ==
    \A a, b \in Seen :
        (a # b /\ ~BadId(rd.doc[a].id)) =>
            SafeInt(rd.doc[a].id) # SafeInt(rd.doc[b].id)

\* C14 amended: for every event handed to the event builder a group with
\* the event's group_id was handed to the group builder before it; it is
\* the only such group when no two group subtrees carry the same id.
C14_EventGroupOrder ==
    \A k \in 1..Len(rd.stream) :
        rd.stream[k].kind = "event" =>
            /\ \E j \in GroupsWithId(rd.stream[k].group_event_id) : j < k
            /\ DistinctGroupIds =>
                  Cardinality(GroupsWithId(rd.stream[k].group_event_id)) = 1

\* two groups with different ids have been handed over, each followed by
\* an event of its own
C14_Witness ==
    /\ DistinctGroupIds
    /\ Len(rd.stream) = 4
    /\ rd.stream[1].kind = "group" /\ rd.stream[2].kind = "event"
    /\ rd.stream[3].kind = "group" /\ rd.stream[4].kind = "event"
    /\ rd.stream[4].group_event_id = rd.stream[3].id

DigitVal(ch) ==
    CASE ch = "0" -> 0 [] ch = "1" -> 1 [] ch = "2" -> 2 [] ch = "3" -> 3
      [] ch = "4" -> 4 [] ch = "5" -> 5 [] ch = "6" -> 6 [] ch = "7" -> 7
      [] ch = "8" -> 8 [] ch = "9" -> 9

\* a <= b for two digit sequences without leading zeros
RECURSIVE MagLeq(_, _)
MagLeq(a, b) ==
    IF Len(a) # Len(b) THEN Len(a) < Len(b)
    ELSE IF a = <<>> THEN TRUE
    ELSE IF Head(a) # Head(b) THEN DigitVal(Head(a)) < DigitVal(Head(b))
    ELSE MagLeq(Tail(a), Tail(b))

\* -2^63 <= v <= 2^63 - 1
InInt64(v) ==
    v.ok /\ MagLeq(v.mag, IF v.neg THEN Digits2p63 ELSE Digits2p63m1)

\* C15: every id and group_id of the records the extractor produces lies
\* in the signed 64-bit range.
C15_IdsAre64Bit ==
    \A k \in 1..Len(rd.yielded) :
        /\ InInt64(rd.yielded[k].group.id)
        /\ \A j \in 1..Len(rd.yielded[k].events) :
              /\ InInt64(rd.yielded[k].events[j].id)
              /\ InInt64(rd.yielded[k].events[j].group_event_id)

(***************************************************************************)
(* Claims about the row encoding (checked under SpecCodec).  The reading   *)
(* side is the one the claim describes: split at tabs, the NULL marker     *)
(* checked on the raw field, backslash sequences undone.                   *)
(***************************************************************************)
RECURSIVE SplitOn(_, _, _)
SplitOn(cs, sep, cur) ==
    IF cs = <<>> THEN <<cur>>
    ELSE IF Head(cs) = sep THEN <<cur>> \o SplitOn(Tail(cs), sep, <<>>)
    ELSE SplitOn(Tail(cs), sep, Append(cur, Head(cs)))

Unescaped(ch) ==
    CASE ch = "t" -> Tab [] ch = "n" -> LineFeed
      [] ch = "r" -> CarriageReturn [] ch = "b" -> Backspace
      [] OTHER -> ch

RECURSIVE Unescape(_)
Unescape(cs) ==
    IF cs = <<>> THEN <<>>
    ELSE IF Head(cs) = Backslash /\ Len(cs) >= 2
    THEN <<Unescaped(cs[2])>> \o Unescape(Tail(Tail(cs)))
    ELSE <<Head(cs)>> \o Unescape(Tail(cs))

RECURSIVE ParseDigits(_, _)
ParseDigits(cs, acc) ==
    IF cs = <<>> THEN acc
    ELSE ParseDigits(Tail(cs), 10 * acc + DigitVal(Head(cs)))

ParseDec(cs) ==
    IF cs # <<>> /\ Head(cs) = "-" THEN 0 - ParseDigits(Tail(cs), 0)
    ELSE ParseDigits(cs, 0)

\* one raw field read back into a column of the type of the original field
DecodeField(raw, orig) ==
    IF raw = NullMarker THEN NoneF
    ELSE IF orig.t = "int" THEN IntF(ParseDec(Unescape(raw)))
    ELSE TextF(Unescape(raw))

LineFeeds(line) == { k \in 1..Len(line) : line[k] = LineFeed }

\* C16: the encoded line of a row is one line (its only line feed is the
\* last character); split at tabs it has the row's number of fields, and
\* reading each field back (NULL marker to absent, backslash sequences
\* undone) gives the original row.
C16_RowRoundTrip ==
    cx.pc = "encoded" =>
        /\ LineFeeds(cx.line) = {Len(cx.line)}
        /\ LET raw == SplitOn(SubSeq(cx.line, 1, Len(cx.line) - 1), Tab,
                              <<>>)
           IN /\ Len(raw) = Len(cx.row)
              /\ \A k \in 1..Len(cx.row) :
                    DecodeField(raw[k], cx.row[k]) = cx.row[k]

\* a row of the text backslash N next to an absent field has been encoded
C16_Witness ==
    /\ cx.pc = "encoded"
    /\ cx.row = <<TextF(<<Backslash, "N">>), NoneF>>
    /\ cx.line = <<Backslash, Backslash, "N", Tab, Backslash, "N", LineFeed>>

(***************************************************************************)
(* Claims about the counters of loaded batches (checked under Spec).       *)
(***************************************************************************)
CopiedField(kind) == IF kind = "group" THEN "groups_copied" ELSE "events_copied"

OtherCopiedField(kind) ==
    IF kind = "group" THEN "events_copied" ELSE "groups_copied"

\* C17: the step that counts a loaded batch adds len(batch.rows) to the
\* *_copied counter of its kind and leaves the other alone, whichever count
\* the driver returned; the step after it adds 1 to batches_copied; no
\* other step changes these counters, and none lowers them.
C17_CopiedCounters ==
    [][ /\ \A c \in Consumers :
            /\ (cons[c].pc = "inc_copied" /\ cons'[c].pc # "inc_copied") =>
                  /\ metrics'[CopiedField(cons[c].msg.kind)]
                        = metrics[CopiedField(cons[c].msg.kind)]
                          + Len(cons[c].msg.rows)
                  /\ metrics'[OtherCopiedField(cons[c].msg.kind)]
                        = metrics[OtherCopiedField(cons[c].msg.kind)]
                  /\ metrics'.batches_copied = metrics.batches_copied
            /\ (cons[c].pc = "inc_batches_copied"
                    /\ cons'[c].pc # "inc_batches_copied") =>
                  /\ metrics'.batches_copied = metrics.batches_copied + 1
                  /\ metrics'.groups_copied = metrics.groups_copied
                  /\ metrics'.events_copied = metrics.events_copied
        /\ (\A c \in Consumers :
                cons[c].pc \in {"inc_copied", "inc_batches_copied"}
                    => cons'[c] = cons[c]) =>
              /\ metrics'.groups_copied = metrics.groups_copied
              /\ metrics'.events_copied = metrics.events_copied
              /\ metrics'.batches_copied = metrics.batches_copied
        /\ metrics'.groups_copied >= metrics.groups_copied
        /\ metrics'.events_copied >= metrics.events_copied
      ]_vars

\* a batch of two rows has been counted after a failed attempt, and its
\* consumer is about to count the batch
C17_Witness ==
    \E c \in Consumers :
        /\ cons[c].pc = "inc_batches_copied"
        /\ Len(cons[c].msg.rows) = 2
        /\ metrics[CopiedField(cons[c].msg.kind)] >= 2
        /\ metrics.copy_errors >= 1

(***************************************************************************)
(* Claims about finalization (checked under SpecFinalize).                 *)
(***************************************************************************)
Inserted == fz.pc \in {"constraints", "done", "failed"}

ExactlyOnePerId(final, ids) ==
    /\ IdsOf(final) = ids
    /\ \A i \in ids : Cardinality({ r \in final : r.id = i }) = 1

\* C18: once finalize has filled the final tables, groups holds exactly one
\* row, taken from staging, for every id of staging groups; events holds
\* exactly one row, taken from staging, for every id of a staging event whose
\* group_event_id is the id of a final group; every final event references
\* a final group; and recreating the keys never fails.
C18_FinalizationResult ==
    /\ fz.pc # "failed"
    /\ Inserted =>
          /\ fz.groups \subseteq fz.stg_groups
          /\ ExactlyOnePerId(fz.groups, IdsOf(fz.stg_groups))
          /\ fz.events \subseteq fz.stg_events
          /\ ExactlyOnePerId(fz.events,
                 { se.id : se \in { r \in fz.stg_events :
                                      r.group_event_id \in IdsOf(fz.groups) } })
          /\ ForeignKeyHolds(fz.events, fz.groups)
          /\ PrimaryKeyHolds(fz.groups)
          /\ PrimaryKeyHolds(fz.events)
    /\ fz.pc = "done" => fz.constraints = AllConstraints

\* finalize has finished over staging tables with a duplicated group id, a
\* duplicated event id and an event of a group that was never staged
C18_Witness ==
    /\ fz.pc = "done"
    /\ Cardinality(fz.stg_groups) > Cardinality(IdsOf(fz.stg_groups))
    /\ Cardinality(fz.stg_events) > Cardinality(IdsOf(fz.stg_events))
    /\ \E se \in fz.stg_events : se.group_event_id \notin IdsOf(fz.groups)
    /\ fz.events # {}

\* C19: two runs of finalize over the same staging contents leave the same
\* final tables, also when staging holds rows of one id with different
\* names.
C19_FinalizeIdempotent ==
    Len(fz.results) = 2 => fz.results[1] = fz.results[2]

(***************************************************************************)
(* Claims about a fatal reader error (checked under Spec).                 *)
(***************************************************************************)
XmlFatalRaised == prod.exitcode # 0

\* C20: when iter_group_events raises in the producer (missing or unreadable
\* file, or a well-formedness error with recover=false), no batch has been
\* or will be enqueued (batches_enqueued, groups_enqueued and
\* events_enqueued are 0), the coordinator has set the stop flag once it is
\* past its progress loop with the producer exited abnormally, and the run
\* does not come to a halt before run_pipeline has returned.
C20_XmlFatalAborts ==
    XmlFatalRaised =>
        /\ metrics.batches_enqueued = 0
        /\ metrics.groups_enqueued = 0
        /\ metrics.events_enqueued = 0
        /\ (ExitedBadly(prod) /\ coord.pc # "loop") => stop_event
        /\ (~ ENABLED Next) => Returned

(***************************************************************************)
(* Claims about what the builder retains (checked under SpecBatch).        *)
(***************************************************************************)
\* C21: after any add call has returned, the builder retains fewer than
\* max_rows rows and fewer than max_bytes estimated bytes (a flush leaves it
\* empty, so the same holds in every state of a builder in use).
C21_AddEmitsAtLimit ==
    bt.pc # "idle" =>
        /\ Len(bt.b.rows) < bt.b.max_rows
        /\ bt.b.bytes < bt.b.max_bytes

(***************************************************************************)
(* Claims about the stop signal and the shutdown (checked under Spec).     *)
(***************************************************************************)
BatchBehindSentinel ==
    \E i, j \in 1..Len(queue) :
        i < j /\ queue[i] = Sentinel /\ queue[j] # Sentinel

C23_StopCheckedBeforeBatch ==
    \A c \in Consumers :
        (cons[c].pc = "copy" /\ cons[c].tries = 0) => ~stop_event

\* C24: once a stop test of the producer has found the flag set, the
\* producer starts no enqueue (it is never again about to call queue.put,
\* for a full batch or for a tail batch) and the parsed counters no longer
\* change.
C24_ProducerStopsOnObservedStop ==
    [][ prod.observed =>
            /\ prod'.pc # "put"
            /\ prod.pc # "put"
            /\ metrics'.groups_parsed = metrics.groups_parsed
            /\ metrics'.events_parsed = metrics.events_parsed ]_vars

\* C27: the stop flag is monotone: no step of the producer, a consumer or
\* the coordinator takes it from set to clear.
C27_StopMonotone == [][ stop_event => stop_event' ]_vars

\* the flag was set by a consumer and the coordinator, which found no
\* worker exited abnormally at either of its two tests, has returned
C27_Witness ==
    /\ stop_event
    /\ Returned
    /\ exhausted # {}
    /\ NoWorkerExitedBadly

RECURSIVE RaisedBy(_)
RaisedBy(n) == IF n = 0 THEN 0 ELSE cons[n - 1].raised + RaisedBy(n - 1)

\* C28: in every reachable state copy_errors is the number of bulk-copy
\* attempts, over all consumers and batches, in which the loader has raised;
\* an attempt that succeeds leaves the counter as it is.
C28_CopyErrorsExact == metrics.copy_errors = RaisedBy(cfg.workers)

\* every consumer has had a failed attempt, one of them the last of its
\* budget, and a batch has been loaded as well
C28_Witness ==
    /\ metrics.copy_errors >= 2
    /\ metrics.batches_copied >= 1
    /\ exhausted # {}
    /\ \A c \in Consumers : cons[c].raised >= 1

\* the batch of consumer c has failed at least once and is past the
\* attempt that succeeded
LoadedAfterRetry(c) ==
    /\ cons[c].pc \in {"inc_copied", "inc_batches_copied"}
    /\ cons[c].tries >= 2

CopiedOf(m, kind) ==
    IF kind = "group" THEN m.groups_copied ELSE m.events_copied

\* C29: a batch whose load fails on k <= copy_retries attempts and then
\* succeeds is counted once and does not stop the run: the failed attempts
\* leave the *_copied and batches_copied counters alone, the steps after
\* the success add len(batch.rows) and 1 to them, and the consumer then
\* returns to the head of its loop without setting the stop flag.
C29_TransientFailuresAbsorbed ==
    [][ \A c \in Consumers :
          /\ (cons[c].pc = "copy" /\ cons'[c] # cons[c]) =>
                /\ metrics'.groups_copied = metrics.groups_copied
                /\ metrics'.events_copied = metrics.events_copied
                /\ metrics'.batches_copied = metrics.batches_copied
                /\ cons'[c].pc = "copy" => stop_event' = stop_event
          /\ (LoadedAfterRetry(c) /\ cons'[c] # cons[c]) =>
                /\ cons[c].tries <= cfg.copy_retries + 1
                /\ stop_event' = stop_event
                /\ c \notin exhausted'
                /\ cons[c].pc = "inc_copied" =>
                      /\ cons'[c].pc = "inc_batches_copied"
                      /\ CopiedOf(metrics', cons[c].msg.kind)
                            = CopiedOf(metrics, cons[c].msg.kind)
                              + Len(cons[c].msg.rows)
                      /\ metrics'.batches_copied = metrics.batches_copied
                /\ cons[c].pc = "inc_batches_copied" =>
                      /\ cons'[c].pc = "loop"
                      /\ metrics'.batches_copied = metrics.batches_copied + 1
                      /\ CopiedOf(metrics', cons[c].msg.kind)
                            = CopiedOf(metrics, cons[c].msg.kind)
      ]_vars

\* a consumer is back at the head of its loop after a batch that was loaded
\* at its second attempt, and nobody has set the stop flag
C29_Witness ==
    /\ ~stop_event
    /\ \E c \in Consumers :
          /\ cons[c].pc = "loop"
          /\ cons[c].raised >= 1
          /\ c \notin exhausted
    /\ metrics.batches_copied >= 1
    /\ metrics.copy_errors = 1

PastConsumerJoins == coord.pc \in {"snapshot", "returned", "main_done"}

\* C30 as stated: a producer that has exited with a non-zero status has made
\* the coordinator set the stop flag before it enqueued a sentinel, and a
\* consumer that has exited with a non-zero status has made it set the flag
\* before run_pipeline returned.
C30_CrashHandling_AsStated ==
    /\ (coord.sent > 0 /\ prod.pc = "exited" /\ prod.exitcode # 0)
          => stop_event
    /\ Returned =>
          \A c \in Consumers :
              (cons[c].pc = "exited" /\ cons[c].exitcode # 0) => stop_event

\* C30: a producer that has exited with a non-zero status has made the
\* coordinator set the stop flag before it enqueued a sentinel; a consumer
\* that had exited with a non-zero status when the coordinator's bounded
\* joins of the consumers returned has made it set the flag before
\* run_pipeline returns.
C30_CrashHandling ==
    /\ (coord.sent > 0 /\ prod.pc = "exited" /\ prod.exitcode # 0)
          => stop_event
    /\ PastConsumerJoins =>
          \A c \in coord.joined : cons[c].exitcode # 0 => stop_event

\* run_pipeline has returned after a clean producer, with a consumer that
\* failed to start, and with nothing else that would have set the flag
C30_Witness ==
    /\ Returned
    /\ prod.pc = "exited" /\ prod.exitcode = 0
    /\ exhausted = {}
    /\ \E c \in coord.joined : cons[c].exitcode # 0
    /\ stop_event

(***************************************************************************)
(* Claims about termination after stop (checked under SpecFair).           *)
(***************************************************************************)
AllConsumersExited == \A c \in Consumers : cons[c].pc = "exited"

\* C25: once the stop flag is set, every consumer eventually terminates,
\* whether it was waiting on the queue or processing a batch, and whether
\* or not a sentinel reaches it.
C25_ConsumersStopOnStop == stop_event ~> AllConsumersExited

\* stop is set while one consumer waits on the empty queue and another is
\* in the middle of a batch, and no sentinel has been enqueued
C25_Witness ==
    /\ stop_event
    /\ coord.sent = 0
    /\ queue = <<>>
    /\ \E c \in Consumers : cons[c].pc = "get"
    /\ \E c \in Consumers : cons[c].pc = "copy" /\ cons[c].tries = 1

\* C26: once the stop flag is set, the producer eventually terminates.
C26_ProducerStopsOnStop == stop_event ~> (prod.pc = "exited")

(***************************************************************************)
(* Claims about the shared counters (checked under Spec).                  *)
(***************************************************************************)
MetricFields == DOMAIN NewMetrics

\* C31: every shared counter is non-decreasing: no step lowers a counter,
\* and the counters at any time after run_pipeline has taken its final
\* snapshot are component-wise at least that snapshot.
C31_CountersMonotone ==
    /\ [][ \A f \in MetricFields : metrics'[f] >= metrics[f] ]_vars
    /\ [](Returned => \A f \in MetricFields : metrics[f] >= coord.final[f])

\* a worker that outlived the coordinator's join has counted a loaded batch
\* after the final snapshot, which also holds a counted copy error
C31_Witness ==
    /\ Returned
    /\ coord.final.copy_errors >= 1
    /\ metrics.batches_copied > coord.final.batches_copied
    /\ metrics.events_copied > coord.final.events_copied

\* the deltas of the calls from position k of one worker that name field f
RECURSIVE DeltasOf(_, _, _)
DeltasOf(calls, k, f) ==
    IF k > Len(calls) THEN 0
    ELSE (IF calls[k].field = f THEN calls[k].delta ELSE 0)
             + DeltasOf(calls, k + 1, f)

\* the deltas of every call of every worker that name field f
RECURSIVE AllDeltas(_, _)
AllDeltas(w, f) ==
    IF w > MaxIncWorkers THEN 0
    ELSE DeltasOf(mx.calls[w], 1, f) + AllDeltas(w + 1, f)

\* every inc call of every worker has returned
MxAllReturned ==
    mx.pc = "run" /\ \A w \in MxWorkers : mx.at[w] > Len(mx.calls[w])

\* C32: with concurrent inc calls no increment is lost (a counter always
\* holds the sum of the deltas stored into it, and once every call has
\* returned the sum of all the deltas of the calls); every snapshot returned
\* equals the counters as they were when the snapshot took the lock, when
\* no inc was between its acquire and its release; an inc with delta = 0
\* never holds the lock, and its return leaves the lock and the counters
\* as they are.
C32_MetricsCoherent ==
    /\ [](\A f \in MetricFields : mx.value[f] = mx.applied[f])
    /\ [](MxAllReturned =>
             \A f \in MxFields : mx.value[f] = AllDeltas(1, f))
    /\ [](\A i \in 1..Len(mx.results) :
             mx.results[i] = mx.taken[i] /\ mx.quiet[i])
    /\ [](\A w \in MxInside : MxCall(w).delta # 0)
    /\ [][ \A w \in MxWorkers :
             (MxCalling(w) /\ mx.wpc[w] = "call" /\ MxCall(w).delta = 0
                 /\ mx'.at[w] # mx.at[w])
             => /\ mx'.lock = mx.lock
                /\ mx'.value = mx.value
                /\ mx'.wpc[w] = "call" ]_vars

\* both workers have incremented the same counter, a call with delta = 0
\* has returned while the lock was held by somebody else, and a snapshot
\* taken between two increments has been returned
C32_Witness ==
    /\ MxAllReturned
    /\ \A w \in MxWorkers :
          /\ Len(mx.calls[w]) = MaxIncCalls
          /\ mx.calls[w][1] = [field |-> "groups_copied", delta |-> w]
    /\ mx.calls[2][2].delta = 0
    /\ Len(mx.results) = 2
    /\ mx.results[1].groups_copied \in {1, 2}
    /\ mx.results[2].groups_copied = 3
    /\ mx.value.groups_copied = 3

(***************************************************************************)
(* Claims about the encoding of the rows and the chunks written.           *)
(***************************************************************************)
\* the line of a row whose present fields are translated character by
\* character, from field k on
RECURSIVE TranslatedFields(_, _)
TranslatedFields(row, k) ==
    LET enc(f) == IF f.t = "none" THEN NullMarker ELSE TranslateAll(Str(f))
    IN IF k > Len(row) THEN <<>>
       ELSE IF k = Len(row) THEN enc(row[k])
       ELSE enc(row[k]) \o <<Tab>> \o TranslatedFields(row, k + 1)

\* the characters the fast path of _escape_copy_text looks for
FastPathChars == {Tab, LineFeed, CarriageReturn, Backslash}

\* C33: in the line of an encoded row every present field is its text with
\* each backslash, tab, line feed, carriage return and backspace replaced
\* by the two-character escape, so no raw backspace is in the line, the
\* only raw tabs are the separators and the only raw line feed ends it.
C33_EscapingRule ==
    cx.pc = "encoded" =>
        /\ cx.line = TranslatedFields(cx.row, 1) \o <<LineFeed>>
        /\ \A k \in 1..Len(cx.line) : cx.line[k] # Backspace

\* the part of C33 that the code keeps: a present field that holds a tab, a
\* line feed, a carriage return or a backslash is translated character by
\* character, its backspaces included
C33_EscapedWhenSlowPath ==
    cx.pc = "encoded" =>
        \A k \in 1..Len(cx.row) :
            LET s == Str(cx.row[k])
            IN (cx.row[k].t # "none"
                   /\ \E j \in 1..Len(s) : s[j] \in FastPathChars)
               => EscapeCopyText(cx.row[k]) = TranslateAll(s)

\* a field holding a backspace next to a tab has been encoded
C33_SlowPathWitness ==
    /\ cx.pc = "encoded"
    /\ cx.row = <<TextF(<<Backspace, Tab>>)>>
    /\ cx.line = <<Backslash, "b", Backslash, "t", LineFeed>>

\* C34: every chunk the chunked writer has passed to the driver's write is
\* at most max_chunk_bytes bytes long.
C34_ChunkWithinLimit ==
    ck.pc # "idle" =>
        \A i \in 1..Len(ck.written) :
            Len(ck.written[i]) <= ck.max_chunk_bytes

\* the lines of the rows from row k on, one after the other
RECURSIVE AllLines(_, _)
AllLines(rows, k) ==
    IF k > Len(rows) THEN <<>>
    ELSE TextLine(rows[k]) \o AllLines(rows, k + 1)

RECURSIVE Concat(_)
Concat(chunks) ==
    IF chunks = <<>> THEN <<>> ELSE Head(chunks) \o Concat(Tail(chunks))

\* the part of C34 that the code keeps: what is buffered stays below
\* max_chunk_bytes, and once copy_rows has returned the chunks written are
\* the lines of the rows in order, every chunk but the last has reached
\* max_chunk_bytes, and the total is the number of rows
C34_ChunksCarryTheRows ==
    ck.pc # "idle" =>
        /\ Len(ck.buf) < ck.max_chunk_bytes
        /\ ck.pc = "returned" =>
              /\ Concat(ck.written) = AllLines(ck.rows, 1)
              /\ ck.total = Len(ck.rows)
              /\ \A i \in 1..(Len(ck.written) - 1) :
                    Len(ck.written[i]) >= ck.max_chunk_bytes

\* three rows have gone out in two chunks, the first of them over the limit
C34_ChunksWitness ==
    /\ ck.pc = "returned"
    /\ Len(ck.rows) = 3
    /\ Len(ck.written) = 2
    /\ Len(ck.written[1]) > ck.max_chunk_bytes
    /\ Len(ck.written[2]) < ck.max_chunk_bytes

(***************************************************************************)
(* Claims about the statements of finalize.                                *)
(***************************************************************************)
\* statement a was executed, and before statement b if b was executed
ExecutedBefore(a, b) ==
    \A j \in 1..Len(fs.log) :
        fs.log[j] = b => \E i \in 1..(j - 1) : fs.log[i] = a

Drops == {"drop_fk", "drop_pk_event", "drop_pk_group", "drop_index"}
Truncates == {"truncate_events", "truncate_groups"}
Inserts == {"insert_groups", "insert_events"}
AddKeys == {"add_pk_group", "add_pk_event"}
Analyzes == {"analyze_groups", "analyze_events"}

\* the order the claim gives, as pairs (earlier, later)
ClaimedOrder ==
    (Drops \X Truncates) \cup (Truncates \X Inserts)
        \cup {<<"insert_groups", "insert_events">>}
        \cup (Inserts \X AddKeys)
        \cup (AddKeys \X {"create_index"})
        \cup {<<"create_index", "add_fk">>}
        \cup ((Drops \cup Truncates \cup Inserts \cup AddKeys
                  \cup {"create_index", "add_fk"}) \X Analyzes)

\* C35: the statements finalize has executed respect the order: the four
\* drops before either truncate, both truncates before both inserts, the
\* groups insert before the events insert, both inserts before both primary
\* keys, these before the index, the index before the foreign key, and
\* everything before the two ANALYZE; a finalize that commits has executed
\* every statement once.
C35_StepOrder ==
    /\ \A p \in ClaimedOrder : ExecutedBefore(p[1], p[2])
    /\ \A i, j \in 1..Len(fs.log) : fs.log[i] = fs.log[j] => i = j
    /\ fs.pc = "committed" =>
          { fs.log[i] : i \in 1..Len(fs.log) } =
              Drops \cup Truncates \cup Inserts \cup AddKeys
                  \cup {"create_index", "add_fk"} \cup Analyzes

\* a finalize over filled staging and filled final tables has committed
C35_Witness ==
    /\ fs.pc = "committed"
    /\ Len(fs.log) = 14
    /\ fs.before.groups # {}
    /\ fs.db.groups # fs.before.groups
    /\ fs.db.events # {}
    /\ fs.db.fk /\ fs.db.ix /\ fs.db.pk_group /\ fs.db.pk_event
    /\ fs.db.analyzed = {"groups", "events"}

\* C36: the statements of finalize run in one transaction: when a statement
\* raises, the final tables, their primary keys, index and foreign key (and
\* everything else in the database) are as they were when finalize was
\* called; the staging tables are as they were in every state, whether
\* finalize is running, has committed or has failed.
C36_AllOrNothing ==
    /\ fs.pc = "rolled_back" => fs.db = fs.before
    /\ fs.db.stg_groups = fs.before.stg_groups
    /\ fs.db.stg_events = fs.before.stg_events

\* a statement has raised after the final tables were emptied and refilled
C36_Witness ==
    /\ fs.pc = "rolled_back"
    /\ Len(fs.log) >= 8
    /\ fs.before.groups # {}
    /\ fs.before.fk
    /\ fs.before.stg_groups # {}
    /\ fs.before.stg_events # {}

(***************************************************************************)
(* Claims about the batches handed out.                                    *)
(***************************************************************************)
\* C37: a batch the builder has returned is never mutated: the list behind
\* every returned batch holds the rows it held on return, whatever add and
\* flush calls followed, and the builder's own list is none of the lists
\* handed out; what the queue carries is the batch as it was returned, and
\* the batch a consumer has processed is as it received it.
C37_BatchNeverMutated ==
    al.pc # "idle" =>
        /\ \A i \in 1..Len(al.handed) :
              /\ al.heap[al.handed[i].ref] = al.handed[i].rows
              /\ al.handed[i].ref # al.ref
        /\ \A i \in 1..Len(al.piped) : al.piped[i] = al.handed[i].rows
        /\ \A i \in 1..Len(al.received) :
              /\ al.received[i].after = al.received[i].rows
              /\ al.received[i].rows = al.handed[i].rows

\* a one-row batch and then a two-row batch were returned, so rows were
\* added to the builder after the first had been handed out, and both
\* batches have crossed the queue and been processed
C37_Witness ==
    /\ al.pc = "flushed"
    /\ Len(al.input) = 3
    /\ Len(al.handed) = 2
    /\ Len(al.handed[1].rows) = 1
    /\ Len(al.handed[2].rows) = 2
    /\ Len(al.received) = 2

(***************************************************************************)
(* Claims about the tree the reader keeps.                                 *)
(***************************************************************************)
\* the <group_event> elements the streamer has finished with
TrFinished ==
    { i \in 1..Len(tr.doc) :
        /\ IsGroup(tr.doc[i])
        /\ \/ i < tr.cur
           \/ i = tr.cur /\ tr.pc \in {"next", "done"} }

\* C38: once the streamer has finished with a <group_event>, emitted or
\* skipped, and has moved on, the element is cleared and nothing to its
\* left is attached to the root; in every state at most one finished
\* <group_event> is attached, and it is cleared, whatever the length of
\* the document.
C38_ConstantMemory ==
    tr.pc # "idle" =>
        /\ (tr.pc \in {"next", "done"} /\ tr.cur > 0) =>
              /\ tr.cur \in tr.cleared
              /\ \A i \in tr.attached : i >= tr.cur
        /\ Cardinality(TrFinished \cap tr.attached) <= 1
        /\ (TrFinished \cap tr.attached) \subseteq tr.cleared

\* a document of four elements is exhausted: a skipped group, another tag
\* and two emitted groups; only the last group, cleared, is attached
C38_Witness ==
    /\ tr.pc = "done"
    /\ tr.doc = <<"skipped", "other", "valid", "valid">>
    /\ tr.yielded = <<3, 4>>
    /\ tr.attached = {4}
    /\ tr.cleared = {1, 3, 4}

(***************************************************************************)
(* Claims about a clean run.                                               *)
(***************************************************************************)
\* the rows of the batches of one kind, in the order of the batches
RECURSIVE RowsOfKind(_, _)
RowsOfKind(batches, kind) ==
    IF batches = <<>> THEN <<>>
    ELSE (IF Head(batches).kind = kind THEN Head(batches).rows ELSE <<>>)
             \o RowsOfKind(Tail(batches), kind)

\* the group rows and the event rows of the bundles from bundle k on
RECURSIVE DocGroupRows(_)
DocGroupRows(k) ==
    IF k > Len(doc) THEN <<>> ELSE <<doc[k].group>> \o DocGroupRows(k + 1)

RECURSIVE DocEventRows(_)
DocEventRows(k) ==
    IF k > Len(doc) THEN <<>> ELSE doc[k].events \o DocEventRows(k + 1)

\* the producer has returned after the iterator was exhausted
ProducerDrained ==
    prod.pc = "exited" /\ prod.exitcode = 0 /\ prod.idx = Len(doc)

\* C39: when the producer has returned after the iterator was exhausted and
\* stop is not set, both builders are empty, the rows of the enqueued group
\* batches in enqueue order are the group rows of the document in order,
\* likewise for the events, groups_enqueued = groups_parsed and
\* events_enqueued = events_parsed, and a document with a group and an
\* event has given at least one batch of each kind.
C39_ProducerDrain ==
    (ProducerDrained /\ ~stop_event) =>
        /\ prod.group_batcher.rows = <<>>
        /\ prod.event_batcher.rows = <<>>
        /\ RowsOfKind(prod.enqueued, "group") = DocGroupRows(1)
        /\ RowsOfKind(prod.enqueued, "event") = DocEventRows(1)
        /\ metrics.groups_enqueued = metrics.groups_parsed
        /\ metrics.events_enqueued = metrics.events_parsed
        /\ metrics.groups_enqueued = Len(DocGroupRows(1))
        /\ metrics.events_enqueued = Len(DocEventRows(1))
        /\ (DocGroupRows(1) # <<>> /\ DocEventRows(1) # <<>>) =>
              /\ \E i \in 1..Len(prod.enqueued) :
                    prod.enqueued[i].kind = "group"
              /\ \E i \in 1..Len(prod.enqueued) :
                    prod.enqueued[i].kind = "event"

\* the producer has drained a document of two groups with an event each,
\* the rows have left in one batch of each kind, and stop is not set
C39_Witness ==
    /\ ProducerDrained
    /\ ~stop_event
    /\ Len(doc) = 2
    /\ Len(DocEventRows(1)) = 2
    /\ cfg.batch_max_rows = 2
    /\ Len(prod.enqueued) = 2
    /\ metrics.groups_enqueued = 2
    /\ metrics.events_enqueued = 2

\* the rows of one kind the producer has enqueued, as a multiset
EnqueuedBag(kind) == SeqToBag(RowsOfKind(prod.enqueued, kind))

\* the batches waiting in the queue
RECURSIVE BatchesIn(_)
BatchesIn(q) ==
    IF q = <<>> THEN <<>>
    ELSE (IF Head(q) = Sentinel THEN <<>> ELSE <<Head(q)>>)
             \o BatchesIn(Tail(q))

\* the rows of one kind in batches that consumers up to c have dequeued and
\* not yet committed
RECURSIVE HeldBag(_, _)
HeldBag(c, kind) ==
    IF c < 0 THEN EmptyBag
    ELSE (IF cons[c].pc = "copy" /\ cons[c].msg.kind = kind
          THEN SeqToBag(cons[c].msg.rows) ELSE EmptyBag)
             (+) HeldBag(c - 1, kind)

\* every row enqueued is in the queue, with one consumer, or committed once
RowsConserved(kind) ==
    EnqueuedBag(kind) =
        staging[kind] (+) SeqToBag(RowsOfKind(BatchesIn(queue), kind))
            (+) HeldBag(cfg.workers - 1, kind)

\* a step that takes a batch from the queue takes its head and gives it to
\* exactly one consumer
DequeuedByOne ==
    (Len(queue') < Len(queue) /\ Head(queue) # Sentinel) =>
        /\ queue' = Tail(queue)
        /\ Cardinality({ c \in Consumers :
               cons'[c] # cons[c] /\ cons'[c].msg = Head(queue) }) = 1
        /\ Cardinality({ c \in Consumers : cons'[c] # cons[c] }) = 1

====
